---- MODULE Spec2Model ----
(***************************************************************************)
(* The staging API worker (src/unnamed/part_001): experiences, pairs and   *)
(* the MindAR target-generation state of each pair, driven by the HTTP     *)
(* handlers of fetch(request, env).  Every handler is one action; the      *)
(* request (path ids, body, credentials), the per-request env (secrets,    *)
(* GitHub configuration), the wall clock and the outcome of the outgoing   *)
(* workflow-dispatch call are the action's inputs.                         *)
(***************************************************************************)
EXTENDS Integers, Sequences, FiniteSets, TLC

\* ---------------------------------------------------------------- bounds
MaxExps == 1        \* experiences ever created
MaxPairs == 1       \* pairs ever created
MaxSiblings == 2    \* pairs ever created in SpecSiblings
MaxCatalog == 2     \* experiences, and pairs, ever created in SpecCatalog
MaxAssets == 2      \* asset rows ever inserted
MaxUploadTime == 3  \* wall-clock readings of the upload routes, 1..MaxUploadTime
MaxClock == 10      \* how far the clock runs, in days
MaxLogins == 2      \* logins ever admitted by each deployment
MaxQrExps == 3      \* experiences ever created in SpecQr
MaxJobs == 2        \* runs of the generation job ever started
MaxTime == 1        \* wall-clock readings 1..MaxTime

\* ------------------------------------------------------------ values
NULL == "NULL"                      \* SQL NULL / JS null (text columns)
NoTime == 0                         \* SQL NULL in a timestamp column
GhostId == 0                        \* an id no row ever had
BlankId == -1                       \* an id that is missing, or empty after trim()

ImageIds == {"img1", "img2"}
VideoIds == {"vid1"}
MindIds == {"mind1", "mind2"}
QrIds == {"q1", "q2"}
Times == 1..MaxTime
Priorities == {0, 1}
DefaultThreshold == 8               \* 0.8, in tenths
DefaultPriority == 0

\* String(x).trim() on the strings the requests carry.
Trim(s) ==
  CASE s = " " -> ""
    [] s = " mind2 " -> "mind2"
    [] OTHER -> s

\* JS truthiness of a string
Truthy(s) == s # "" /\ s # NULL

Has(body, f) == f \in DOMAIN body

VARIABLES experiences, pairs, nextExp, nextPair, assets, nextAsset, bucket, uploadUrls,
          clock, issued, users, sessions, nextSession, jobs, deleting

\* The clock and what logging in leaves behind: the signed tokens that
\* /auth/login has returned (held by their callers), and the users and
\* sessions tables of the deployment with server-held sessions.
authVars == <<clock, issued, users, sessions, nextSession>>

vars == <<experiences, pairs, nextExp, nextPair, assets, nextAsset, bucket, uploadUrls,
          clock, issued, users, sessions, nextSession, jobs, deleting>>

\* The database and the Object Store as one value: the rows of experiences,
\* pairs and assets, the number of ids uuid() has issued for each table, and
\* the objects of env.BUCKET by key.  (uploadUrls is not part of it: the
\* upload URLs that /uploads/sign has returned are held by its callers.)
DB == [experiences |-> experiences, pairs |-> pairs, nextExp |-> nextExp, nextPair |-> nextPair,
       assets |-> assets, nextAsset |-> nextAsset, bucket |-> bucket]

Remove(f, ids) == [k \in DOMAIN f \ ids |-> f[k]]
Insert(f, k, v) == [j \in DOMAIN f \cup {k} |-> IF j = k THEN v ELSE f[j]]

\* ------------------------------------------------------------ requests
\* env of one invocation: the job secret, whether GITHUB_TOKEN and
\* GITHUB_REPO are both set, and the key of hmacSign.
JobSecrets == {"", "s1"}
Envs == [MINDAR_JOB_SECRET : JobSecrets, GITHUB : BOOLEAN, SIGNING_SECRET : {"k1"}]

\* hmacSign(secret, data): a signature is determined by its key and data.
hmacSign(secret, data) == [key |-> secret, data |-> data]

TokenTtl == 7                       \* 60 * 60 * 24 * 7 seconds, in days
NoToken == [payload |-> [email |-> "", exp |-> 0], sig |-> hmacSign("", "")]
GoodPayload == [email |-> "admin@local", exp |-> MaxTime + TokenTtl]
GoodToken == [payload |-> GoodPayload, sig |-> hmacSign("k1", GoodPayload)]
ForgedToken == [payload |-> GoodPayload, sig |-> hmacSign("forged", GoodPayload)]

\* Credentials of a request: the bearer token (NoToken: no Authorization
\* header) and the x-job-secret header ("" when absent).
Anon == [token |-> NoToken, jobHeader |-> ""]
Admin == [token |-> GoodToken, jobHeader |-> ""]
Forger == [token |-> ForgedToken, jobHeader |-> ""]
Job == [token |-> NoToken, jobHeader |-> "s1"]
WrongJob == [token |-> NoToken, jobHeader |-> "s2"]
AdminWrongJob == [token |-> GoodToken, jobHeader |-> "s2"]
Creds == {Anon, Admin, Forger, Job, WrongJob, AdminWrongJob}

\* verifyToken without the test of exp against the clock.
verifyToken_NoExpiry(env, token, now) ==
  IF token.sig # hmacSign(env.SIGNING_SECRET, token.payload) THEN NULL
  ELSE IF token.payload.email = "" \/ token.payload.exp = 0 THEN NULL
  ELSE token.payload.email

\* verifyToken without the comparison of signatures.
verifyToken_AnySignature(env, token, now) ==
  IF token.payload.email = "" \/ token.payload.exp = 0 \/ token.payload.exp < now THEN NULL
  ELSE token.payload.email

verifyToken(env, token, now) ==
  IF token.sig # hmacSign(env.SIGNING_SECRET, token.payload) THEN NULL
  ELSE IF token.payload.email = "" \/ token.payload.exp = 0 \/ token.payload.exp < now THEN NULL
  ELSE token.payload.email

requireUser(req) ==
  IF req.cred.token = NoToken THEN NULL ELSE verifyToken(req.env, req.cred.token, req.now)

\* isJobSecretValid without the length test: an unset secret matches an absent header.
isJobSecretValid_NoLength(req) ==
  req.cred.jobHeader = req.env.MINDAR_JOB_SECRET

isJobSecretValid(req) ==
  req.env.MINDAR_JOB_SECRET # "" /\ req.cred.jobHeader = req.env.MINDAR_JOB_SECRET

\* The gate in front of /experiences*, /pairs* and /uploads* (not /uploads/put/).
GateClosed(req) == requireUser(req) = NULL /\ ~isJobSecretValid(req)

\* Outcome of the outgoing workflow-dispatch request.
NetResults == {"ok", "notok", "throw"}

\* dispatchMindarJob: "true" | "false", or "threw" when fetch() rejects.
dispatchMindarJob(req) ==
  IF ~req.env.GITHUB THEN "false"
  ELSE IF req.net = "throw" THEN "threw"
  ELSE IF req.net = "notok" THEN "false"
  ELSE "true"

\* What every request carries: credentials, the env of the invocation, the
\* reading of the clock and the fate of an outgoing fetch().
Ctx(cred, env, now, net) == [cred |-> cred, env |-> env, now |-> now, net |-> net]
Ctxs == {Ctx(c, e, t, n) : c \in Creds, e \in Envs, t \in Times, n \in NetResults}

\* A handler's result: the database it leaves and the response it returns.
Result(db, code, out) == [db |-> db, code |-> code, out |-> out]
Fail(db, code) == Result(db, code, [error |-> TRUE])

PublicAssetUrl(assetId) == "/public/assets/" \o assetId

\* uuid(): an id never issued before.
uuid(counter) == counter + 1

\* A body field, or the default the handler substitutes with || or ??.
Field(body, f, default) == IF Has(body, f) THEN body[f] ELSE default

\* JSON.stringify of a fingerprint value
JsonStringify(fp) == "json:" \o fp

\* ------------------------------------------------------------ pairs
\* The dispatch-failure UPDATE writing a status outside the enumeration.
MarkDispatchFailed_Error(ps, id) ==
  IF id \in DOMAIN ps
  THEN [ps EXCEPT ![id].mind_target_status = "error",
                  ![id].mind_target_error = "Dispatch failed"]
  ELSE ps

\* UPDATE pairs SET mind_target_status = 'failed', mind_target_error =
\* 'Dispatch failed' WHERE id = ?
MarkDispatchFailed(ps, id) ==
  IF id \in DOMAIN ps
  THEN [ps EXCEPT ![id].mind_target_status = "failed",
                  ![id].mind_target_error = "Dispatch failed"]
  ELSE ps

\* const ok = await dispatchMindarJob(...); if (!ok) { UPDATE ... failed };
\* return json(..., 200): outOk or outFailed.  A rejected fetch() leaves the
\* handler through the catch of fetch(request, env): 500, nothing more written.
Trigger(db, id, req, outOk, outFailed) ==
  LET ok == dispatchMindarJob(req)
  IN  IF ok = "threw" THEN Fail(db, 500)
      ELSE IF ok = "false"
           THEN Result([db EXCEPT !.pairs = MarkDispatchFailed(@, id)], 200, outFailed)
           ELSE Result(db, 200, outOk)

\* POST /experiences/:id/pairs
CreatePair(db, req) ==
  LET body == req.body
      imageAssetId == Trim(Field(body, "image_asset_id", ""))
      videoAssetId == Trim(Field(body, "video_asset_id", ""))
      fingerprint == Field(body, "image_fingerprint", NULL)
      threshold == Field(body, "threshold", DefaultThreshold)
      priority == Field(body, "priority", DefaultPriority)
      id == uuid(db.nextPair)
      row == [experience_id |-> req.expId,
              image_asset_id |-> imageAssetId,
              video_asset_id |-> videoAssetId,
              mind_target_asset_id |-> NULL,
              mind_target_status |-> "pending",
              mind_target_error |-> NULL,
              mind_target_requested_at |-> req.now,
              mind_target_completed_at |-> NoTime,
              image_fingerprint |-> IF Truthy(fingerprint) THEN JsonStringify(fingerprint) ELSE NULL,
              threshold |-> threshold,
              priority |-> priority,
              is_active |-> 1]
  IN  IF GateClosed(req) THEN Fail(db, 401)
      ELSE IF ~Truthy(imageAssetId) \/ ~Truthy(videoAssetId) THEN Fail(db, 400)
      ELSE Trigger([db EXCEPT !.pairs = Insert(@, id, row), !.nextPair = id], id, req, [id |-> id], [id |-> id])

\* NextExperienceId ignoring the body.
NextExperienceId_Kept(body, existing) == existing.experience_id

\* const nextExperienceId = experienceId ?? existing.experience_id
NextExperienceId(body, existing) ==
  IF Has(body, "experience_id") THEN body.experience_id ELSE existing.experience_id

\* const imageChanged = imageAssetId && imageAssetId !== existing.image_asset_id
ImageChanged(imageAssetId, existing) ==
  Truthy(imageAssetId) /\ imageAssetId # existing.image_asset_id

\* nextMindStatus without its condition: every update asks for a new target.
NextMindStatus_Always(imageChanged, existing) == "pending"

NextMindStatus(imageChanged, existing) ==
  IF imageChanged THEN "pending" ELSE existing.mind_target_status

\* nextMindAssetId without its condition, either way.
NextMindAssetId_Cleared(imageChanged, existing) == NULL
NextMindAssetId(imageChanged, existing) ==
  IF imageChanged THEN NULL ELSE existing.mind_target_asset_id

\* PUT /pairs/:id
PutPair(db, req) ==
  LET body == req.body
      pairId == req.pairId
      imageAssetId == IF Truthy(Field(body, "image_asset_id", NULL)) THEN Trim(body.image_asset_id) ELSE NULL
      videoAssetId == IF Truthy(Field(body, "video_asset_id", NULL)) THEN Trim(body.video_asset_id) ELSE NULL
      fingerprint == Field(body, "image_fingerprint", NULL)
  IN  IF GateClosed(req) THEN Fail(db, 401)
      ELSE IF pairId \notin DOMAIN db.pairs THEN Fail(db, 404)
      ELSE
        LET existing == db.pairs[pairId]
            nextExperienceId == NextExperienceId(body, existing)
            nextImageAssetId == IF imageAssetId # NULL THEN imageAssetId ELSE existing.image_asset_id
            nextVideoAssetId == IF videoAssetId # NULL THEN videoAssetId ELSE existing.video_asset_id
            nextFingerprint == IF fingerprint # NULL THEN JsonStringify(fingerprint) ELSE existing.image_fingerprint
            nextThreshold == Field(body, "threshold", existing.threshold)
            nextPriority == Field(body, "priority", existing.priority)
            nextActive == IF ~Has(body, "is_active") THEN existing.is_active
                          ELSE IF body.is_active THEN 1 ELSE 0
            imageChanged == ImageChanged(imageAssetId, existing)
            nextMindStatus == NextMindStatus(imageChanged, existing)
            nextMindAssetId == NextMindAssetId(imageChanged, existing)
            nextMindRequestedAt == IF imageChanged THEN req.now ELSE existing.mind_target_requested_at
            row == [existing EXCEPT
                      !.experience_id = nextExperienceId,
                      !.image_asset_id = nextImageAssetId,
                      !.video_asset_id = nextVideoAssetId,
                      !.image_fingerprint = nextFingerprint,
                      !.mind_target_asset_id = nextMindAssetId,
                      !.mind_target_status = nextMindStatus,
                      !.mind_target_error = NULL,
                      !.mind_target_requested_at = nextMindRequestedAt,
                      !.threshold = nextThreshold,
                      !.priority = nextPriority,
                      !.is_active = nextActive]
            db1 == [db EXCEPT !.pairs[pairId] = row]
        IN  IF imageChanged THEN Trigger(db1, pairId, req, [ok |-> TRUE], [ok |-> TRUE])
            ELSE Result(db1, 200, [ok |-> TRUE])

\* DELETE /pairs/:id
DeletePair(db, req) ==
  IF GateClosed(req) THEN Fail(db, 401)
  ELSE Result([db EXCEPT !.pairs = Remove(@, {req.pairId})], 200, [ok |-> TRUE])

\* POST /jobs/mindar/dispatch
DispatchJob(db, req) ==
  LET pairId == Field(req.body, "pairId", BlankId)
      imageAssetId == Trim(Field(req.body, "image_asset_id", ""))
      requested(ps) ==
        IF pairId \in DOMAIN ps
        THEN [ps EXCEPT ![pairId].mind_target_status = "pending",
                        ![pairId].mind_target_error = NULL,
                        ![pairId].mind_target_requested_at = req.now]
        ELSE ps
  IN  IF requireUser(req) = NULL THEN Fail(db, 401)
      ELSE IF pairId = BlankId \/ ~Truthy(imageAssetId) THEN Fail(db, 400)
      ELSE Trigger([db EXCEPT !.pairs = requested(@)], pairId, req, [ok |-> TRUE], [ok |-> FALSE])

\* errorMessage trimmed like the other body strings.
ErrorMessage_Trimmed(body) ==
  IF Truthy(Field(body, "error", "")) THEN Trim(body.error) ELSE ""

\* const errorMessage = body?.error ? String(body.error) : ""
ErrorMessage(body) ==
  IF Truthy(Field(body, "error", "")) THEN body.error ELSE ""

\* The failure test with the negation of mindAssetId lost.
ReportsFailure_NoNegation(errorMessage, mindAssetId) ==
  Truthy(errorMessage) \/ Truthy(mindAssetId)

\* if (errorMessage || !mindAssetId): the callback reports a failure
ReportsFailure(errorMessage, mindAssetId) ==
  Truthy(errorMessage) \/ ~Truthy(mindAssetId)

\* CompleteJob taking a target only for a pair that awaits one: a target
\* for a pair that is not pending is recorded as a failure.
CompleteJob_OnlyPending(db, req) ==
  LET pairId == Field(req.body, "pairId", BlankId)
      mindAssetId == Trim(Field(req.body, "mindAssetId", ""))
      errorMessage == ErrorMessage(req.body)
      message == IF Truthy(errorMessage) THEN errorMessage ELSE "MindAR generation failed"
      failed(ps, text) ==
        IF pairId \in DOMAIN ps
        THEN [ps EXCEPT ![pairId].mind_target_status = "failed",
                        ![pairId].mind_target_error = text,
                        ![pairId].mind_target_completed_at = req.now]
        ELSE ps
      ready(ps) ==
        IF pairId \in DOMAIN ps
        THEN IF ps[pairId].mind_target_status # "pending"
             THEN failed(ps, "Unexpected completion")
             ELSE [ps EXCEPT ![pairId].mind_target_asset_id = mindAssetId,
                             ![pairId].mind_target_status = "ready",
                             ![pairId].mind_target_error = NULL,
                             ![pairId].mind_target_completed_at = req.now]
        ELSE ps
  IN  IF ~isJobSecretValid(req) THEN Fail(db, 401)
      ELSE IF pairId = BlankId THEN Fail(db, 400)
      ELSE IF ReportsFailure(errorMessage, mindAssetId)
           THEN Result([db EXCEPT !.pairs = failed(@, message)], 200, [ok |-> FALSE, error |-> message])
           ELSE Result([db EXCEPT !.pairs = ready(@)], 200, [ok |-> TRUE])

\* POST /jobs/mindar/complete
CompleteJob(db, req) ==
  LET pairId == Field(req.body, "pairId", BlankId)
      mindAssetId == Trim(Field(req.body, "mindAssetId", ""))
      errorMessage == ErrorMessage(req.body)
      message == IF Truthy(errorMessage) THEN errorMessage ELSE "MindAR generation failed"
      failed(ps) ==
        IF pairId \in DOMAIN ps
        THEN [ps EXCEPT ![pairId].mind_target_status = "failed",
                        ![pairId].mind_target_error = message,
                        ![pairId].mind_target_completed_at = req.now]
        ELSE ps
      ready(ps) ==
        IF pairId \in DOMAIN ps
        THEN [ps EXCEPT ![pairId].mind_target_asset_id = mindAssetId,
                        ![pairId].mind_target_status = "ready",
                        ![pairId].mind_target_error = NULL,
                        ![pairId].mind_target_completed_at = req.now]
        ELSE ps
  IN  IF ~isJobSecretValid(req) THEN Fail(db, 401)
      ELSE IF pairId = BlankId THEN Fail(db, 400)
      ELSE IF ReportsFailure(errorMessage, mindAssetId)
           THEN Result([db EXCEPT !.pairs = failed(@)], 200, [ok |-> FALSE, error |-> message])
           ELSE Result([db EXCEPT !.pairs = ready(@)], 200, [ok |-> TRUE])

\* ------------------------------------------------------------ experiences
\* POST /experiences; req.qr is the code genQrId() draws.
CreateExperience(db, req) ==
  LET name == Trim(Field(req.body, "name", ""))
      id == uuid(db.nextExp)
      row == [name |-> name, qr_id |-> req.qr, is_active |-> 1]
  IN  IF GateClosed(req) THEN Fail(db, 401)
      ELSE IF ~Truthy(name) THEN Fail(db, 400)
      ELSE Result([db EXCEPT !.experiences = Insert(@, id, row), !.nextExp = id], 200,
                  [id |-> id, name |-> name, qr_id |-> req.qr, is_active |-> TRUE])

\* GET /experiences/:id
GetExperience(db, req) ==
  IF GateClosed(req) THEN Fail(db, 401)
  ELSE IF req.expId \notin DOMAIN db.experiences THEN Fail(db, 404)
  ELSE Result(db, 200, [id |-> req.expId, name |-> db.experiences[req.expId].name,
                        qr_id |-> db.experiences[req.expId].qr_id,
                        is_active |-> db.experiences[req.expId].is_active = 1])

\* PUT /experiences/:id
PutExperience(db, req) ==
  LET body == req.body
      id == req.expId
  IN  IF GateClosed(req) THEN Fail(db, 401)
      ELSE IF id \notin DOMAIN db.experiences THEN Fail(db, 404)
      ELSE
        LET existing == db.experiences[id]
            nextName == IF Has(body, "name") THEN Trim(body.name) ELSE existing.name
            nextQr == IF Has(body, "qr_id") THEN Trim(body.qr_id) ELSE existing.qr_id
            nextActive == IF ~Has(body, "is_active") THEN existing.is_active
                          ELSE IF body.is_active THEN 1 ELSE 0
            row == [name |-> nextName, qr_id |-> nextQr, is_active |-> nextActive]
        IN  Result([db EXCEPT !.experiences[id] = row], 200,
                   [id |-> id, name |-> nextName, qr_id |-> nextQr, is_active |-> nextActive = 1])

\* DeleteExperience without the DELETE FROM pairs.
DeleteExperience_RowOnly(db, req) ==
  IF GateClosed(req) THEN Fail(db, 401)
  ELSE Result([db EXCEPT !.experiences = Remove(@, {req.expId})], 200, [ok |-> TRUE])

\* DELETE /experiences/:id: the pairs of the experience, then its row.
\* run() reports success for a DELETE that matches no row.
DeleteExperience(db, req) ==
  LET id == req.expId
      ofExp == {p \in DOMAIN db.pairs : db.pairs[p].experience_id = id}
  IN  IF GateClosed(req) THEN Fail(db, 401)
      ELSE Result([db EXCEPT !.pairs = Remove(@, ofExp), !.experiences = Remove(@, {id})],
                  200, [ok |-> TRUE])

\* GET /experiences/:id/pairs: the rows WHERE experience_id = ? in the order
\* ORDER BY priority DESC, id DESC, each with its id and columns.
ListPairs(db, req) ==
  LET ids == {p \in DOMAIN db.pairs : db.pairs[p].experience_id = req.expId}
      n == Cardinality(ids)
      first(a, b) == \/ db.pairs[a].priority > db.pairs[b].priority
                     \/ db.pairs[a].priority = db.pairs[b].priority /\ a > b
      order == CHOOSE sq \in [1..n -> ids] :
                 \A i, j \in 1..n : i < j => first(sq[i], sq[j])
  IN  IF GateClosed(req) THEN Fail(db, 401)
      ELSE Result(db, 200, [pairs |-> [i \in 1..n |-> [id |-> order[i]] @@ db.pairs[order[i]]]])

\* ------------------------------------------------------------ public
\* SelectedPair without the is_active = 1 condition.
SelectedPair_AnyActivity(db, expId) ==
  LET cand == {p \in DOMAIN db.pairs : db.pairs[p].experience_id = expId}
      before(a, b) == \/ db.pairs[a].priority > db.pairs[b].priority
                      \/ db.pairs[a].priority = db.pairs[b].priority /\ a >= b
  IN  {p \in cand : \A o \in cand : before(p, o)}

\* ORDER BY priority DESC, id DESC LIMIT 1 over the active pairs of expId
SelectedPair(db, expId) ==
  LET cand == {p \in DOMAIN db.pairs :
                 db.pairs[p].experience_id = expId /\ db.pairs[p].is_active = 1}
      before(a, b) == \/ db.pairs[a].priority > db.pairs[b].priority
                      \/ db.pairs[a].priority = db.pairs[b].priority /\ a >= b
  IN  {p \in cand : \A o \in cand : before(p, o)}

\* PublicPayload with the target URL given for any stored target id.
PublicPayload_AnyStatus(db, expId) ==
  LET sel == SelectedPair(db, expId)
      found == sel # {}
      pair == db.pairs[CHOOSE p \in sel : TRUE]
  IN  [experience |-> expId,
       mindarTargetUrl |->
         IF found /\ Truthy(pair.mind_target_asset_id)
         THEN PublicAssetUrl(pair.mind_target_asset_id) ELSE NULL,
       videoUrl |->
         IF found /\ Truthy(pair.video_asset_id)
         THEN PublicAssetUrl(pair.video_asset_id) ELSE NULL,
       mind_target_status |-> IF found THEN pair.mind_target_status ELSE NULL]

\* The payload for the experience row exp.  pair?.x of a missing pair is
\* undefined: no URL, status null.
PublicPayload(db, expId) ==
  LET sel == SelectedPair(db, expId)
      found == sel # {}
      pair == db.pairs[CHOOSE p \in sel : TRUE]
  IN  [experience |-> expId,
       mindarTargetUrl |->
         IF found /\ pair.mind_target_status = "ready" /\ Truthy(pair.mind_target_asset_id)
         THEN PublicAssetUrl(pair.mind_target_asset_id) ELSE NULL,
       videoUrl |->
         IF found /\ Truthy(pair.video_asset_id)
         THEN PublicAssetUrl(pair.video_asset_id) ELSE NULL,
       mind_target_status |-> IF found THEN pair.mind_target_status ELSE NULL]

\* GET /public/experience/:qr.  SELECT ... WHERE qr_id = ? LIMIT 1 has no
\* ORDER BY: first() is any one of the rows with that code, so the handler
\* has one possible response per such row.
PublicExperience(db, qrId) ==
  LET rows == {e \in DOMAIN db.experiences : db.experiences[e].qr_id = qrId}
  IN  IF rows = {} THEN {Fail(db, 404)}
      ELSE {IF db.experiences[e].is_active = 0 THEN Fail(db, 404)
            ELSE Result(db, 200, PublicPayload(db, e)) : e \in rows}

\* ------------------------------------------------------------ uploads
DefaultMime == "application/octet-stream"

\* sanitizeFilename, on the file names the requests use.
sanitizeFilename(name) ==
  CASE name = "a.png" -> "a.png"
    [] name = "b c.mp4" -> "b_c.mp4"
    [] name = " " -> "file"
    [] name = "" -> "file"
    [] OTHER -> name

\* body?.f || default
OrElse(body, f, default) == IF Has(body, f) /\ Truthy(body[f]) THEN body[f] ELSE default

\* The token of a request that has no token parameter (or an empty one).
NoSignature == hmacSign("", "")

\* hmacSign(secret, `upload:${r2Key}`)
buildUploadToken(env, r2Key) == hmacSign(env.SIGNING_SECRET, "upload:" \o r2Key)

\* verifyUploadToken accepting any signature made with the server's key.
verifyUploadToken_AnyKey(env, r2Key, token) ==
  token # NoSignature /\ token.key = env.SIGNING_SECRET

verifyUploadToken(env, r2Key, token) ==
  IF token = NoSignature THEN FALSE
  ELSE token = buildUploadToken(env, r2Key)

\* The id uuid() gives the n-th asset row: opaque, and never issued before.
AssetUuid(counter) == <<"img1", "vid1", "img2", "mind1", "mind2", "mind3", "mind4">>[counter + 1]

\* POST /uploads/sign.  req.uuid is the value uuid() returns.
SignUpload(db, req) ==
  LET body == req.body
      kind == Trim(OrElse(body, "kind", ""))
      mime == Trim(OrElse(body, "mime", DefaultMime))
      filename == Trim(OrElse(body, "filename", "file"))
      r2Key == kind \o "/" \o req.uuid \o "-" \o sanitizeFilename(filename)
      token == buildUploadToken(req.env, r2Key)
  IN  IF GateClosed(req) THEN Fail(db, 401)
      ELSE Result(db, 200, [uploadUrl |-> [r2Key |-> r2Key, token |-> token, mime |-> mime],
                            r2Key |-> r2Key])

\* PUT /uploads/put/:key?token=&mime=, which the gate lets through.
PutUpload(db, req) ==
  LET r2Key == req.r2Key
      mime == IF req.mime = "" THEN DefaultMime ELSE req.mime
  IN  IF r2Key = "" THEN Fail(db, 404)
      ELSE IF ~verifyUploadToken(req.env, r2Key, req.token) THEN Fail(db, 401)
      ELSE Result([db EXCEPT !.bucket = Insert(@, r2Key, [data |-> req.data, contentType |-> mime])],
                  200, [ok |-> TRUE, r2Key |-> r2Key])

\* POST /uploads/complete
CompleteUpload(db, req) ==
  LET body == req.body
      kind == Trim(OrElse(body, "kind", ""))
      r2Key == Trim(OrElse(body, "r2Key", ""))
      mime == Trim(OrElse(body, "mime", DefaultMime))
      size == Field(body, "size", 0)
      id == AssetUuid(db.nextAsset)
      row == [kind |-> kind, r2_key |-> r2Key, mime |-> mime, size |-> size]
  IN  IF GateClosed(req) THEN Fail(db, 401)
      ELSE IF ~Truthy(kind) \/ ~Truthy(r2Key) THEN Fail(db, 400)
      ELSE Result([db EXCEPT !.assets = Insert(@, id, row), !.nextAsset = @ + 1], 200,
                  [id |-> id, kind |-> kind, r2_key |-> r2Key, mime |-> mime, size |-> size])

\* ---- the deployment whose upload tokens carry their expiry (part_002)
UploadTtl == 1                      \* 1000 * 60 * 5 ms, in units of five minutes
UploadTimes == 1..MaxUploadTime

signPayload(payload, secret) == [payload |-> payload, sig |-> hmacSign(secret, payload)]
NoPayloadToken == signPayload([r2Key |-> "", exp |-> 0], "")

\* verifyPayload: whether the signature is the one of the payload.
verifyPayload(token, secret) == token.sig = hmacSign(secret, token.payload)

\* buildR2Key: filename.replace(/[^a-zA-Z0-9._-]/g, "_")
safeName(name) ==
  CASE name = "b c.mp4" -> "b_c.mp4"
    [] OTHER -> name
buildR2Key(kind, filename, id) == "uploads/" \o kind \o "/" \o id \o "-" \o safeName(filename)

\* POST /uploads/sign.  req.user is what requireAuth returns for the request
\* (the session and user rows it reads are not part of this model).
SignUploadExpiring(db, req) ==
  LET body == req.body
      kind == Trim(Field(body, "kind", ""))
      mime == Trim(Field(body, "mime", ""))
      filename == Trim(Field(body, "filename", ""))
      r2Key == buildR2Key(kind, filename, req.uuid)
      payload == [r2Key |-> r2Key, kind |-> kind, mime |-> mime, size |-> body.size,
                  exp |-> req.now + UploadTtl]
      token == signPayload(payload, req.env.SIGNING_SECRET)
  IN  IF req.user = NULL THEN Fail(db, 401)
      ELSE IF ~Truthy(kind) \/ ~Truthy(mime) \/ ~Truthy(filename) \/ ~Has(body, "size") THEN Fail(db, 400)
      ELSE IF kind \notin {"image", "video"} THEN Fail(db, 400)
      ELSE Result(db, 200, [uploadUrl |-> [r2Key |-> r2Key, token |-> token], r2Key |-> r2Key])

\* if (Date.now() > exp)
Expired(now, exp) == now > exp

\* PUT /uploads/put/:key?token=
PutUploadExpiring(db, req) ==
  IF req.token = NoPayloadToken THEN Fail(db, 401)
  ELSE IF ~verifyPayload(req.token, req.env.SIGNING_SECRET) THEN Fail(db, 401)
  ELSE IF req.token.payload.r2Key # req.r2Key THEN Fail(db, 403)
  ELSE IF Expired(req.now, req.token.payload.exp) THEN Fail(db, 403)
  ELSE Result([db EXCEPT !.bucket = Insert(@, req.r2Key, [data |-> req.data, contentType |-> req.contentType])],
              200, [ok |-> TRUE, r2Key |-> req.r2Key])

\* ------------------------------------------------------------ inputs
\* The invocations that drive the model: an admin with a bearer token and the
\* generation job with the job secret, against a deployment with or without
\* the GitHub workflow configured.  (A request the gate or a handler rejects
\* leaves the database as it is.)
EnvFull == [MINDAR_JOB_SECRET |-> "s1", GITHUB |-> TRUE, SIGNING_SECRET |-> "k1"]
EnvBare == [MINDAR_JOB_SECRET |-> "", GITHUB |-> FALSE, SIGNING_SECRET |-> "k1"]

AdminCtxs ==
  {Ctx(Admin, EnvFull, t, n) : t \in Times, n \in NetResults}
    \cup {Ctx(Admin, EnvBare, t, "ok") : t \in Times}
JobCtxs == {Ctx(Job, EnvFull, t, "ok") : t \in Times}

With(ctx, fields) == ctx @@ fields

CreatePairBodies ==
  {[image_asset_id |-> "img1", video_asset_id |-> "vid1"],
   [image_asset_id |-> "img1", video_asset_id |-> "vid1", priority |-> 1],
   [image_asset_id |-> " ", video_asset_id |-> "vid1"],
   [image_asset_id |-> "img1"]}

PutPairBodies(db) ==
  {[image_asset_id |-> i] : i \in ImageIds \cup {" "}}
    \cup {[video_asset_id |-> " "]}
    \cup {[experience_id |-> e] : e \in 0..db.nextExp}
    \cup {[priority |-> pr] : pr \in Priorities}
    \cup {[is_active |-> a] : a \in BOOLEAN}
    \cup {[threshold |-> DefaultThreshold]}

DispatchBodies(db) ==
  {[pairId |-> p, image_asset_id |-> "img1"] : p \in 0..db.nextPair}
    \cup {[image_asset_id |-> "img1"]}

ErrorMessages == {"timeout", " "}
CompleteBodies(db) ==
  {[pairId |-> p, mindAssetId |-> m] : p \in 0..db.nextPair, m \in MindIds \cup {" ", " mind2 "}}
    \cup {[pairId |-> p, error |-> e] : p \in 0..db.nextPair, e \in ErrorMessages}
    \cup {[pairId |-> p, mindAssetId |-> m, error |-> e] :
            p \in 0..db.nextPair, m \in {"mind1"}, e \in ErrorMessages \cup {""}}
    \cup {[pairId |-> p] : p \in 0..db.nextPair}
    \cup {[mindAssetId |-> "mind1"]}

PutExperienceBodies ==
  {[is_active |-> a] : a \in BOOLEAN} \cup {[qr_id |-> q] : q \in QrIds} \cup {[name |-> "Demo"]}

\* The requests of each route, for callers ctxs.
CreateExperienceReqs(db, ctxs) ==
  {With(ctx, [qr |-> q, body |-> [name |-> n]]) : ctx \in ctxs, q \in QrIds, n \in {"Demo", ""}}
PutExperienceReqs(db, ctxs) ==
  {With(ctx, [expId |-> e, body |-> b]) : ctx \in ctxs, e \in 0..db.nextExp, b \in PutExperienceBodies}
DeleteExperienceReqs(db, ctxs) ==
  {With(ctx, [expId |-> e]) : ctx \in ctxs, e \in 0..db.nextExp}
CreatePairReqs(db, ctxs) ==
  {With(ctx, [expId |-> e, body |-> b]) : ctx \in ctxs, e \in 0..db.nextExp, b \in CreatePairBodies}
PutPairReqs(db, ctxs) ==
  {With(ctx, [pairId |-> p, body |-> b]) : ctx \in ctxs, p \in 0..db.nextPair, b \in PutPairBodies(db)}
DeletePairReqs(db, ctxs) ==
  {With(ctx, [pairId |-> p]) : ctx \in ctxs, p \in 0..db.nextPair}
DispatchJobReqs(db, ctxs) ==
  {With(ctx, [body |-> b]) : ctx \in ctxs, b \in DispatchBodies(db)}
CompleteJobReqs(db, ctxs) ==
  {With(ctx, [body |-> b]) : ctx \in ctxs, b \in CompleteBodies(db)}

\* ------------------------------------------------------------ actions
Apply(r) ==
  /\ experiences' = r.db.experiences
  /\ pairs' = r.db.pairs
  /\ nextExp' = r.db.nextExp
  /\ nextPair' = r.db.nextPair
  /\ assets' = r.db.assets
  /\ nextAsset' = r.db.nextAsset
  /\ bucket' = r.db.bucket
  /\ UNCHANGED uploadUrls
  /\ UNCHANGED <<authVars, jobs, deleting>>

Init ==
  /\ experiences = <<>>
  /\ pairs = <<>>
  /\ nextExp = 0
  /\ nextPair = 0
  /\ assets = <<>>
  /\ nextAsset = 0
  /\ bucket = <<>>
  /\ uploadUrls = {}
  /\ clock = 1
  /\ issued = {}
  /\ users = <<>>
  /\ sessions = <<>>
  /\ nextSession = 0
  /\ jobs = <<>>
  /\ deleting = {}

DoCreateExperience(reqs, max) ==
  /\ nextExp < max
  /\ \E req \in reqs : Apply(CreateExperience(DB, req))

DoPutExperience(reqs) ==
  \E req \in reqs : Apply(PutExperience(DB, req))

DoDeleteExperience(reqs) ==
  \E req \in reqs : Apply(DeleteExperience(DB, req))

DoCreatePair(reqs, max) ==
  /\ nextPair < max
  /\ \E req \in reqs : Apply(CreatePair(DB, req))

DoPutPair(reqs) ==
  \E req \in reqs : Apply(PutPair(DB, req))

DoDeletePair(reqs) ==
  \E req \in reqs : Apply(DeletePair(DB, req))

DoDispatchJob(reqs) ==
  \E req \in reqs : Apply(DispatchJob(DB, req))

DoCompleteJob(reqs) ==
  \E req \in reqs : Apply(CompleteJob(DB, req))

\* One pair at most, every kind of request.
Next ==
  \/ DoCreateExperience(CreateExperienceReqs(DB, AdminCtxs), MaxExps)
  \/ DoPutExperience(PutExperienceReqs(DB, AdminCtxs))
  \/ DoDeleteExperience(DeleteExperienceReqs(DB, AdminCtxs))
  \/ DoCreatePair(CreatePairReqs(DB, AdminCtxs), MaxPairs)
  \/ DoPutPair(PutPairReqs(DB, AdminCtxs))
  \/ DoDeletePair(DeletePairReqs(DB, AdminCtxs))
  \/ DoDispatchJob(DispatchJobReqs(DB, AdminCtxs))
  \/ DoCompleteJob(CompleteJobReqs(DB, JobCtxs))

Spec == Init /\ [][Next]_vars

\* Several pairs of one experience, driven by the requests the admin app and
\* the generation job send: well-formed bodies naming existing rows, the
\* trigger accepted or refused.
SiblingAdmins == {Ctx(Admin, EnvFull, MaxTime, n) : n \in {"ok", "notok"}}
SiblingJobs == {Ctx(Job, EnvFull, MaxTime, "ok")}
SiblingExps(db) == DOMAIN db.experiences
SiblingPairs(db) == DOMAIN db.pairs

SiblingCreateExperienceReqs(db) ==
  {With(ctx, [qr |-> "q1", body |-> [name |-> "Demo"]]) : ctx \in SiblingAdmins}
SiblingPutExperienceReqs(db) ==
  {With(ctx, [expId |-> e, body |-> [is_active |-> a]]) :
     ctx \in SiblingAdmins, e \in SiblingExps(db), a \in BOOLEAN}
SiblingDeleteExperienceReqs(db) ==
  {With(ctx, [expId |-> e]) : ctx \in SiblingAdmins, e \in SiblingExps(db)}
SiblingCreatePairReqs(db) ==
  {With(ctx, [expId |-> e, body |-> [image_asset_id |-> "img1", video_asset_id |-> "vid1"]]) :
     ctx \in SiblingAdmins, e \in SiblingExps(db)}
SiblingPutPairReqs(db) ==
  {With(ctx, [pairId |-> p, body |-> b]) :
     ctx \in SiblingAdmins, p \in SiblingPairs(db),
     b \in {[image_asset_id |-> i] : i \in ImageIds}
            \cup {[priority |-> pr] : pr \in Priorities}
            \cup {[is_active |-> a] : a \in BOOLEAN}}
SiblingDeletePairReqs(db) ==
  {With(ctx, [pairId |-> p]) : ctx \in SiblingAdmins, p \in SiblingPairs(db)}
SiblingDispatchJobReqs(db) ==
  {With(ctx, [body |-> [pairId |-> p, image_asset_id |-> db.pairs[p].image_asset_id]]) :
     ctx \in SiblingAdmins, p \in SiblingPairs(db)}
SiblingCompleteJobReqs(db) ==
  {With(ctx, [body |-> b]) :
     ctx \in SiblingJobs,
     b \in {[pairId |-> p, mindAssetId |-> "mind1"] : p \in SiblingPairs(db)}
            \cup {[pairId |-> p, error |-> "timeout"] : p \in SiblingPairs(db)}}

NextSiblings ==
  \/ DoCreateExperience(SiblingCreateExperienceReqs(DB), MaxExps)
  \/ DoPutExperience(SiblingPutExperienceReqs(DB))
  \/ DoDeleteExperience(SiblingDeleteExperienceReqs(DB))
  \/ DoCreatePair(SiblingCreatePairReqs(DB), MaxSiblings)
  \/ DoPutPair(SiblingPutPairReqs(DB))
  \/ DoDeletePair(SiblingDeletePairReqs(DB))
  \/ DoDispatchJob(SiblingDispatchJobReqs(DB))
  \/ DoCompleteJob(SiblingCompleteJobReqs(DB))

SpecSiblings == Init /\ [][NextSiblings]_vars

\* Several experiences, which may come to share a code, and several pairs
\* that are reordered, switched off and moved between them; the generation
\* job answers with a target and the admin retries.
CatalogAdmins == {Ctx(Admin, EnvFull, MaxTime, "ok")}

CatalogCreateExperienceReqs(db) ==
  {With(ctx, [qr |-> q, body |-> [name |-> "Demo"]]) : ctx \in CatalogAdmins, q \in QrIds}
CatalogPutExperienceReqs(db) ==
  {With(ctx, [expId |-> e, body |-> b]) :
     ctx \in CatalogAdmins, e \in SiblingExps(db),
     b \in {[is_active |-> a] : a \in BOOLEAN} \cup {[qr_id |-> q] : q \in QrIds}}
CatalogDeleteExperienceReqs(db) ==
  {With(ctx, [expId |-> e]) : ctx \in CatalogAdmins, e \in SiblingExps(db)}
CatalogCreatePairReqs(db) ==
  {With(ctx, [expId |-> e, body |-> [image_asset_id |-> "img1", video_asset_id |-> "vid1"]]) :
     ctx \in CatalogAdmins, e \in SiblingExps(db)}
CatalogPutPairReqs(db) ==
  {With(ctx, [pairId |-> p, body |-> b]) :
     ctx \in CatalogAdmins, p \in SiblingPairs(db),
     b \in {[experience_id |-> e] : e \in SiblingExps(db)}
            \cup {[priority |-> pr] : pr \in Priorities}
            \cup {[is_active |-> a] : a \in BOOLEAN}}
CatalogDeletePairReqs(db) ==
  {With(ctx, [pairId |-> p]) : ctx \in CatalogAdmins, p \in SiblingPairs(db)}
CatalogDispatchJobReqs(db) ==
  {With(ctx, [body |-> [pairId |-> p, image_asset_id |-> db.pairs[p].image_asset_id]]) :
     ctx \in CatalogAdmins, p \in SiblingPairs(db)}
CatalogCompleteJobReqs(db) ==
  {With(ctx, [body |-> [pairId |-> p, mindAssetId |-> m]]) :
     ctx \in SiblingJobs, p \in SiblingPairs(db), m \in MindIds}

NextCatalog ==
  \/ DoCreateExperience(CatalogCreateExperienceReqs(DB), MaxCatalog)
  \/ DoPutExperience(CatalogPutExperienceReqs(DB))
  \/ DoDeleteExperience(CatalogDeleteExperienceReqs(DB))
  \/ DoCreatePair(CatalogCreatePairReqs(DB), MaxCatalog)
  \/ DoPutPair(CatalogPutPairReqs(DB))
  \/ DoDeletePair(CatalogDeletePairReqs(DB))
  \/ DoDispatchJob(CatalogDispatchJobReqs(DB))
  \/ DoCompleteJob(CatalogCompleteJobReqs(DB))

SpecCatalog == Init /\ [][NextCatalog]_vars

\* Uploads: upload URLs are signed, used (once or again, with one content or
\* another) and completed into asset rows, and a pair is created and updated
\* with asset ids, in any order.  The routes of the deployment with expiring
\* tokens write to the same Object Store.
UploadAdmins == {Ctx(Admin, EnvFull, MaxTime, "ok")}
UploadData == {"d1", "d2"}
UploadBodies ==
  {[kind |-> "image", mime |-> "image/png", filename |-> "a.png", size |-> 1],
   [kind |-> "video", filename |-> "b c.mp4", size |-> 1]}
SignedUrls == {u \in uploadUrls : Has(u, "mime")}
ExpiringUrls == {u \in uploadUrls : ~Has(u, "mime")}

SignUploadReqs(ctxs) ==
  {With(ctx, [uuid |-> "u1", body |-> b]) : ctx \in ctxs, b \in UploadBodies}
PutUploadReqs(urls) ==
  {[env |-> EnvFull, r2Key |-> u.r2Key, token |-> u.token, mime |-> u.mime, data |-> d] :
     u \in urls, d \in UploadData}
CompleteUploadReqs(ctxs, keys) ==
  {With(ctx, [body |-> [kind |-> k, r2Key |-> key, mime |-> "image/png", size |-> 1]]) :
     ctx \in ctxs, k \in {"image", "video"}, key \in keys}
SignUploadExpiringReqs ==
  {[user |-> "admin", env |-> EnvFull, now |-> t, uuid |-> "u1",
    body |-> [kind |-> "image", mime |-> "image/png", filename |-> "a.png", size |-> 1]] :
     t \in 1..(MaxUploadTime - 1)}
PutUploadExpiringReqs(urls) ==
  {[env |-> EnvFull, r2Key |-> u.r2Key, token |-> u.token, now |-> t, data |-> d,
    contentType |-> "image/png"] : u \in urls, t \in UploadTimes, d \in UploadData}
UploadCreatePairReqs ==
  {With(ctx, [expId |-> GhostId, body |-> [image_asset_id |-> "img1", video_asset_id |-> "vid1"]]) :
     ctx \in UploadAdmins}
UploadPutPairReqs(db) ==
  {With(ctx, [pairId |-> p, body |-> [image_asset_id |-> i]]) :
     ctx \in UploadAdmins, p \in SiblingPairs(db), i \in ImageIds}

DoSignUpload(reqs) ==
  \E req \in reqs :
    LET r == SignUpload(DB, req)
    IN  /\ r.code = 200
        /\ uploadUrls' = uploadUrls \cup {r.out.uploadUrl}
        /\ UNCHANGED <<experiences, pairs, nextExp, nextPair, assets, nextAsset, bucket>>
        /\ UNCHANGED <<authVars, jobs, deleting>>

DoPutUpload(reqs) ==
  \E req \in reqs : Apply(PutUpload(DB, req))

DoCompleteUpload(reqs, max) ==
  /\ nextAsset < max
  /\ \E req \in reqs : Apply(CompleteUpload(DB, req))

DoSignUploadExpiring(reqs) ==
  \E req \in reqs :
    LET r == SignUploadExpiring(DB, req)
    IN  /\ r.code = 200
        /\ uploadUrls' = uploadUrls \cup {r.out.uploadUrl}
        /\ UNCHANGED <<experiences, pairs, nextExp, nextPair, assets, nextAsset, bucket>>
        /\ UNCHANGED <<authVars, jobs, deleting>>

DoPutUploadExpiring(reqs) ==
  \E req \in reqs : Apply(PutUploadExpiring(DB, req))

NextUploads ==
  \/ DoSignUpload(SignUploadReqs(UploadAdmins))
  \/ DoPutUpload(PutUploadReqs(SignedUrls))
  \/ DoCompleteUpload(CompleteUploadReqs(UploadAdmins, {u.r2Key : u \in SignedUrls}), MaxAssets)
  \/ DoSignUploadExpiring(SignUploadExpiringReqs)
  \/ DoPutUploadExpiring(PutUploadExpiringReqs(ExpiringUrls))
  \/ DoCreatePair(UploadCreatePairReqs, MaxPairs)
  \/ DoPutPair(UploadPutPairReqs(DB))

SpecUploads == Init /\ [][NextUploads]_vars

\* ------------------------------------------------------------ logging in and out
\* String(body?.email || "").trim().toLowerCase(), on the emails the requests carry.
LowerTrim(s) ==
  CASE s = " Admin@Local " -> "admin@local"
    [] OTHER -> Trim(s)

\* issueToken: the payload {email, exp} and its HMAC (iat, which nothing reads, is left out).
issueToken(env, email, now) ==
  LET payload == [email |-> email, exp |-> now + TokenTtl]
  IN  [payload |-> payload, sig |-> hmacSign(env.SIGNING_SECRET, payload)]

\* POST /auth/login
Login(req) ==
  LET email == LowerTrim(OrElse(req.body, "email", ""))
      password == OrElse(req.body, "password", "")
  IN  IF ~(email = "admin@local" /\ password = "admin123")
      THEN [code |-> 401, out |-> [error |-> TRUE]]
      ELSE [code |-> 200, out |-> [token |-> issueToken(req.env, email, req.now)]]

\* POST /auth/logout: answers ok and does nothing else.
Logout(req) == [code |-> 200, out |-> [ok |-> TRUE]]

\* GET /auth/me
Me(req) ==
  IF requireUser(req) = NULL THEN [code |-> 401, out |-> [error |-> TRUE]]
  ELSE [code |-> 200, out |-> [ok |-> TRUE, user |-> requireUser(req)]]

\* ---- the deployment with server-held sessions (part_002)
SessionTtl == 7                     \* 1000 * 60 * 60 * 24 * 7 ms, in days

\* The users and sessions tables, and the number of tokens randomToken has made.
SDB == [users |-> users, sessions |-> sessions, nextSession |-> nextSession]

\* hashPassword(password, salt): determined by its two arguments.
hashPassword(password, salt) == [password |-> password, salt |-> salt]

\* randomToken(32) of the n-th login: opaque, and never made before.
randomToken(counter) == <<"t1", "t2", "t3", "t4">>[counter + 1]

\* assertString(value) ?? default
StringOr(body, f, default) ==
  IF Has(body, f) /\ Trim(body[f]) # "" THEN Trim(body[f]) ELSE default

UserWithEmail(sdb, email) == {u \in DOMAIN sdb.users : sdb.users[u].email = email}

\* POST /dev/seed-admin
SeedAdmin(sdb, req) ==
  LET email == StringOr(req.body, "email", "admin@local")
      password == StringOr(req.body, "password", "admin123")
      row == [email |-> email, password_hash |-> hashPassword(password, "salt"),
              password_salt |-> "salt", is_active |-> TRUE]
  IN  IF req.env.NODE_ENV # "development" THEN Fail(sdb, 404)
      ELSE IF UserWithEmail(sdb, email) # {} THEN Result(sdb, 200, [ok |-> TRUE, existed |-> TRUE])
      ELSE Result([sdb EXCEPT !.users = Insert(@, "u1", row)], 200, [ok |-> TRUE, created |-> TRUE])

\* POST /auth/login
SessionLogin(sdb, req) ==
  LET email == StringOr(req.body, "email", "")
      password == StringOr(req.body, "password", "")
      found == UserWithEmail(sdb, email)
      id == CHOOSE u \in found : TRUE
      token == randomToken(sdb.nextSession)
      row == [user_id |-> id, expires_at |-> req.now + SessionTtl]
  IN  IF email = "" \/ password = "" THEN Fail(sdb, 400)
      ELSE IF found = {} THEN Fail(sdb, 401)
      ELSE IF ~sdb.users[id].is_active THEN Fail(sdb, 401)
      ELSE IF hashPassword(password, sdb.users[id].password_salt) # sdb.users[id].password_hash
        THEN Fail(sdb, 401)
      ELSE Result([sdb EXCEPT !.sessions = Insert(@, token, row), !.nextSession = @ + 1],
                  200, [token |-> token])

\* SessionLogout that only clears the cookie.
SessionLogout_KeepsRow(sdb, req) == Result(sdb, 200, [ok |-> TRUE])

\* POST /auth/logout.  req.token is parseAuthToken's result, "" for none.
SessionLogout(sdb, req) ==
  IF req.token # ""
  THEN Result([sdb EXCEPT !.sessions = Remove(@, {req.token})], 200, [ok |-> TRUE])
  ELSE Result(sdb, 200, [ok |-> TRUE])

\* requireAuth: the user ("NULL" for none) and the tables it leaves.
requireAuth(sdb, req) ==
  LET token == req.token
      session == sdb.sessions[token]
  IN  IF token = "" THEN [db |-> sdb, user |-> NULL]
      ELSE IF token \notin DOMAIN sdb.sessions THEN [db |-> sdb, user |-> NULL]
      ELSE IF session.expires_at < req.now
        THEN [db |-> [sdb EXCEPT !.sessions = Remove(@, {token})], user |-> NULL]
      ELSE IF session.user_id \notin DOMAIN sdb.users THEN [db |-> sdb, user |-> NULL]
      ELSE IF ~sdb.users[session.user_id].is_active THEN [db |-> sdb, user |-> NULL]
      ELSE [db |-> sdb, user |-> session.user_id]

\* GET /auth/me
SessionMe(sdb, req) ==
  LET auth == requireAuth(sdb, req)
  IN  IF auth.user = NULL THEN Fail(auth.db, 401)
      ELSE Result(auth.db, 200, [user |-> auth.user])

\* ---- POST /experiences of the deployment with sessions
MaxQrAttempts == 5                  \* for (let attempt = 0; attempt < 5; attempt++)

\* The loop over the codes buildQrId() draws, codes[i] being the i-th draw:
\* the code it ends with and the number of SELECTs it made.
RECURSIVE QrLoop(_, _, _, _)
\* QrLoop taking the first draw without a SELECT.
QrLoop_Unchecked(used, codes, attempt, i) == [qr_id |-> codes[i], checks |-> 0]

QrLoop(used, codes, attempt, i) ==
  IF attempt >= MaxQrAttempts THEN [qr_id |-> codes[i], checks |-> attempt]
  ELSE IF codes[i] \notin used THEN [qr_id |-> codes[i], checks |-> attempt + 1]
  ELSE QrLoop(used, codes, attempt + 1, i + 1)

\* POST /experiences.  req.codes are the draws of buildQrId(), in order.
\* The result carries the sessions table that requireAuth leaves.
CreateExperienceSession(db, sdb, req) ==
  LET auth == requireAuth(sdb, req)
      name == StringOr(req.body, "name", "")
      id == uuid(db.nextExp)
      used == {db.experiences[e].qr_id : e \in DOMAIN db.experiences}
      loop == QrLoop(used, req.codes, 0, 1)
      row == [name |-> name, qr_id |-> loop.qr_id, is_active |-> 1]
  IN  IF auth.user = NULL THEN [db |-> db, sdb |-> auth.db, code |-> 401, out |-> [error |-> TRUE]]
      ELSE IF name = "" THEN [db |-> db, sdb |-> auth.db, code |-> 400, out |-> [error |-> TRUE]]
      ELSE [db |-> [db EXCEPT !.experiences = Insert(@, id, row), !.nextExp = id],
            sdb |-> auth.db, code |-> 200,
            out |-> [id |-> id, name |-> name, qr_id |-> loop.qr_id, is_active |-> TRUE,
                     checks |-> loop.checks]]

\* ---- requests and actions of both deployments, at the reading of the clock
LoginBodies ==
  {[email |-> " Admin@Local ", password |-> "admin123"],
   [email |-> "admin@local", password |-> "wrong"], [password |-> "admin123"]}
LoginReqs == {[env |-> EnvFull, now |-> clock, body |-> b] : b \in LoginBodies}
BearerReqs(tokens) ==
  {Ctx([token |-> t, jobHeader |-> ""], EnvFull, clock, "ok") : t \in tokens}

SessionEnvs == {[NODE_ENV |-> e] : e \in {"development", "production"}}
SeedAdminReqs == {[env |-> e, body |-> <<>>] : e \in SessionEnvs}
SessionLoginReqs ==
  {[now |-> clock, body |-> b] :
     b \in {[email |-> "admin@local", password |-> "admin123"],
            [email |-> "admin@local", password |-> "wrong"],
            [email |-> "nobody@local", password |-> "admin123"], [email |-> " "]}}
SessionTokens == {randomToken(n) : n \in 0..(nextSession - 1)}
SessionReqs(tokens) == {[now |-> clock, token |-> t] : t \in tokens}

ApplySession(r) ==
  /\ users' = r.db.users
  /\ sessions' = r.db.sessions
  /\ nextSession' = r.db.nextSession
  /\ UNCHANGED <<experiences, pairs, nextExp, nextPair, assets, nextAsset, bucket, uploadUrls, jobs, deleting>>
  /\ UNCHANGED <<clock, issued>>

\* A day passes.
Tick ==
  /\ clock < MaxClock
  /\ clock' = clock + 1
  /\ UNCHANGED <<experiences, pairs, nextExp, nextPair, assets, nextAsset, bucket, uploadUrls, jobs, deleting>>
  /\ UNCHANGED <<issued, users, sessions, nextSession>>

DoLogin(reqs, max) ==
  /\ Cardinality(issued) < max
  /\ \E req \in reqs :
       LET r == Login(req)
       IN  /\ r.code = 200
           /\ issued' = issued \cup {r.out.token}
           /\ UNCHANGED <<experiences, pairs, nextExp, nextPair, assets, nextAsset, bucket, uploadUrls, jobs, deleting>>
           /\ UNCHANGED <<clock, users, sessions, nextSession>>

DoLogout(reqs) ==
  \E req \in reqs : Logout(req).code = 200 /\ UNCHANGED vars

DoSeedAdmin(reqs) ==
  \E req \in reqs : ApplySession(SeedAdmin(SDB, req))

DoSessionLogin(reqs, max) ==
  /\ nextSession < max
  /\ \E req \in reqs : ApplySession(SessionLogin(SDB, req))

DoSessionLogout(reqs) ==
  \E req \in reqs : ApplySession(SessionLogout(SDB, req))

DoSessionMe(reqs) ==
  \E req \in reqs : ApplySession(SessionMe(SDB, req))

\* The codes buildQrId() can draw, few enough to collide.
QrDraws == [1..(MaxQrAttempts + 1) -> QrIds \cup {"q3"}]
CreateExperienceSessionReqs(tokens) ==
  {[now |-> clock, token |-> t, body |-> [name |-> "Demo"], codes |-> c] :
     t \in tokens, c \in QrDraws}

DoCreateExperienceSession(reqs, max) ==
  /\ nextExp < max
  /\ \E req \in reqs :
       LET r == CreateExperienceSession(DB, SDB, req)
       IN  /\ r.code = 200
           /\ experiences' = r.db.experiences
           /\ nextExp' = r.db.nextExp
           /\ users' = r.sdb.users
           /\ sessions' = r.sdb.sessions
           /\ nextSession' = r.sdb.nextSession
           /\ UNCHANGED <<pairs, nextPair, assets, nextAsset, bucket, uploadUrls, clock, issued, jobs, deleting>>

\* Experiences of the deployment with sessions, created by a logged-in admin.
NextQr ==
  \/ DoSeedAdmin(SeedAdminReqs)
  \/ DoSessionLogin(SessionLoginReqs, MaxLogins)
  \/ DoSessionLogout(SessionReqs(SessionTokens))
  \/ DoCreateExperienceSession(CreateExperienceSessionReqs(SessionTokens), MaxQrExps)

SpecQr == Init /\ [][NextQr]_vars

NextAuth ==
  \/ Tick
  \/ DoLogin(LoginReqs, MaxLogins)
  \/ DoLogout(BearerReqs(issued))
  \/ DoSeedAdmin(SeedAdminReqs)
  \/ DoSessionLogin(SessionLoginReqs, MaxLogins)
  \/ DoSessionLogout(SessionReqs(SessionTokens \cup {""}))
  \/ DoSessionMe(SessionReqs(SessionTokens \cup {""}))

SpecAuth == Init /\ [][NextAuth]_vars

\* ------------------------------------------------------------ the generation job
\* One run of scripts/mindar-generate.mjs: the PAIR_ID and the image of the
\* IMAGE_PUBLIC_URL it was started with, where it stands, the upload URL and
\* the asset id it has obtained, the message of the error it caught, and the
\* bodies it has posted to /jobs/mindar/complete, in order.
JobRun(pairId, image) ==
  [pairId |-> pairId, image |-> image, pc |-> "download", r2Key |-> "", token |-> NoSignature,
   mindAssetId |-> "", error |-> "", reports |-> <<>>]

\* The job's requests carry the job secret and no bearer token.
JobCtx == Ctx(Job, EnvFull, MaxTime, "ok")
\* `pair-${pairId}.mind`
MindFilename(pairId) == <<"pair-1.mind", "pair-2.mind", "pair-3.mind">>[pairId]
\* The value uuid() gives /uploads/sign for the j-th run.
SignUuid(j) == <<"u1", "u2", "u3", "u4">>[j]

\* throw new Error(message): main() is left for its catch.
Thrown(job, message) == [job EXCEPT !.pc = "catch", !.error = message]

\* downloadImageDataUrl: the image arrives, or the fetch fails.
JobDownload(job, arrived) ==
  IF arrived THEN [job EXCEPT !.pc = "compile"] ELSE Thrown(job, "Failed to fetch image")

\* compileMindTarget: the compiler exports a target, or throws.
JobCompile(job, compiled) ==
  IF compiled THEN [job EXCEPT !.pc = "sign"] ELSE Thrown(job, "compile failed")

\* uploadMindFile, first request: POST /uploads/sign.  answered is FALSE when
\* the request fails on the way.
JobSign(db, job, j, answered) ==
  LET res == SignUpload(db, With(JobCtx, [uuid |-> SignUuid(j),
                 body |-> [kind |-> "mind", mime |-> DefaultMime,
                           filename |-> MindFilename(job.pairId), size |-> 1]]))
  IN  IF ~answered \/ res.code # 200
      THEN [db |-> db, job |-> Thrown(job, "Upload sign failed")]
      ELSE [db |-> res.db,
            job |-> [job EXCEPT !.pc = "put", !.r2Key = res.out.uploadUrl.r2Key,
                                !.token = res.out.uploadUrl.token]]

\* uploadMindFile, second request: PUT of the target to the signed URL.
JobPut(db, job) ==
  LET res == PutUpload(db, [env |-> EnvFull, r2Key |-> job.r2Key, token |-> job.token,
                            mime |-> DefaultMime, data |-> "d1"])
  IN  IF res.code # 200 THEN [db |-> db, job |-> Thrown(job, "Upload put failed")]
      ELSE [db |-> res.db, job |-> [job EXCEPT !.pc = "complete"]]

\* uploadMindFile, third request: POST /uploads/complete, which returns the asset id.
JobComplete(db, job) ==
  LET res == CompleteUpload(db, With(JobCtx, [body |-> [kind |-> "mind", r2Key |-> job.r2Key,
                                                       mime |-> DefaultMime, size |-> 1]]))
  IN  IF res.code # 200 THEN [db |-> db, job |-> Thrown(job, "Upload complete failed")]
      ELSE [db |-> res.db, job |-> [job EXCEPT !.pc = "report", !.mindAssetId = res.out.id]]

\* The fate of a callback request: answered; lost before it reaches the
\* service; or handled by the service with the answer lost on the way back.
\* fetch() rejects in the last two.
Deliveries == {"answered", "lost", "cut"}

\* postJobComplete whose request never reaches the service.
postJobComplete_Dropped(db, payload, delivery) == db

\* postJobComplete(payload): the service handles the request if it arrives;
\* a response that is not ok is only logged.
postJobComplete(db, payload, delivery) ==
  IF delivery = "lost" THEN db ELSE CompleteJob(db, With(JobCtx, [body |-> payload])).db

\* await postJobComplete({ pairId, mindAssetId }) at the end of main()
JobReport(db, job, delivery) ==
  LET payload == [pairId |-> job.pairId, mindAssetId |-> job.mindAssetId]
      sent == [job EXCEPT !.reports = Append(@, payload)]
  IN  [db |-> postJobComplete(db, payload, delivery),
       job |-> IF delivery = "answered" THEN [sent EXCEPT !.pc = "done"]
               ELSE Thrown(sent, "fetch failed")]

\* main().catch: postJobComplete({ pairId, error: message }), then exit(1).
JobCatch(db, job, delivery) ==
  LET payload == [pairId |-> job.pairId, error |-> job.error]
  IN  [db |-> postJobComplete(db, payload, delivery),
       job |-> [job EXCEPT !.pc = "exit", !.reports = Append(@, payload)]]

\* ---- the service and the runs it starts
\* The handler's result is applied and the runs it started are added.
ApplyStarting(r, started) ==
  /\ experiences' = r.db.experiences
  /\ pairs' = r.db.pairs
  /\ nextExp' = r.db.nextExp
  /\ nextPair' = r.db.nextPair
  /\ assets' = r.db.assets
  /\ nextAsset' = r.db.nextAsset
  /\ bucket' = r.db.bucket
  /\ jobs' = jobs \o started
  /\ UNCHANGED uploadUrls
  /\ UNCHANGED <<authVars, deleting>>

\* The workflow run that an accepted dispatch starts for pairId and the
\* image of imagePublicUrl.
Started(req, pairId, image) ==
  IF dispatchMindarJob(req) = "true" THEN <<JobRun(pairId, image)>> ELSE <<>>

\* A step of run j leaves the database and the run as the step returns them.
ApplyJob(j, r) ==
  /\ pairs' = r.db.pairs
  /\ assets' = r.db.assets
  /\ nextAsset' = r.db.nextAsset
  /\ bucket' = r.db.bucket
  /\ jobs' = [jobs EXCEPT ![j] = r.job]
  /\ UNCHANGED <<experiences, nextExp, nextPair, uploadUrls>>
  /\ UNCHANGED <<authVars, deleting>>

At(pc) == {j \in DOMAIN jobs : jobs[j].pc = pc}

DoCreatePairStarting(reqs, max) ==
  /\ nextPair < max
  /\ Len(jobs) < MaxJobs
  /\ \E req \in reqs :
       LET r == CreatePair(DB, req)
       IN  ApplyStarting(r, IF r.code = 200
                            THEN Started(req, r.out.id, r.db.pairs[r.out.id].image_asset_id)
                            ELSE <<>>)

DoPutPairStarting(reqs) ==
  /\ Len(jobs) < MaxJobs
  /\ \E req \in reqs :
       LET r == PutPair(DB, req)
           imageChanged == /\ req.pairId \in DOMAIN pairs
                           /\ r.code \in {200, 500}
                           /\ r.db.pairs[req.pairId].image_asset_id # pairs[req.pairId].image_asset_id
       IN  ApplyStarting(r, IF imageChanged
                            THEN Started(req, req.pairId, r.db.pairs[req.pairId].image_asset_id)
                            ELSE <<>>)

DoDispatchJobStarting(reqs) ==
  /\ Len(jobs) < MaxJobs
  /\ \E req \in reqs :
       LET r == DispatchJob(DB, req)
       IN  ApplyStarting(r, IF r.code \in {200, 500}
                            THEN Started(req, req.body.pairId, Trim(req.body.image_asset_id))
                            ELSE <<>>)

DoJobDownload(outcomes) ==
  \E j \in At("download") : \E arrived \in outcomes :
    ApplyJob(j, [db |-> DB, job |-> JobDownload(jobs[j], arrived)])

DoJobCompile(outcomes) ==
  \E j \in At("compile") : \E compiled \in outcomes :
    ApplyJob(j, [db |-> DB, job |-> JobCompile(jobs[j], compiled)])

DoJobSign(outcomes) ==
  \E j \in At("sign") : \E answered \in outcomes : ApplyJob(j, JobSign(DB, jobs[j], j, answered))

DoJobPut ==
  \E j \in At("put") : ApplyJob(j, JobPut(DB, jobs[j]))

DoJobComplete ==
  \E j \in At("complete") : ApplyJob(j, JobComplete(DB, jobs[j]))

DoJobReport(deliveries) ==
  \E j \in At("report") : \E d \in deliveries : ApplyJob(j, JobReport(DB, jobs[j], d))

DoJobCatch(deliveries) ==
  \E j \in At("catch") : \E d \in deliveries : ApplyJob(j, JobCatch(DB, jobs[j], d))

\* ---- the admin uploads the images and the video, creates a pair with them,
\* changes its image and retries, while the runs take their steps
KindOf(id) == IF id \in ImageIds THEN "image" ELSE IF id \in VideoIds THEN "video" ELSE "mind"
AdminAssets == ImageIds \cup VideoIds
AdminUploadReqs(db) ==
  {With(ctx, [body |-> [kind |-> KindOf(AssetUuid(db.nextAsset)),
                        r2Key |-> KindOf(AssetUuid(db.nextAsset)) \o "/" \o AssetUuid(db.nextAsset),
                        mime |-> "image/png", size |-> 1]]) : ctx \in UploadAdmins}
JobAdmins == {Ctx(Admin, EnvFull, MaxTime, n) : n \in {"ok", "throw"}}
JobCreatePairReqs(db) ==
  {With(ctx, [expId |-> GhostId, body |-> [image_asset_id |-> "img1", video_asset_id |-> "vid1"]]) :
     ctx \in {c \in JobAdmins : AdminAssets \subseteq DOMAIN db.assets}}
JobPutPairReqs(db) ==
  {req \in {With(ctx, [pairId |-> p, body |-> [image_asset_id |-> i]]) :
               ctx \in UploadAdmins, p \in DOMAIN db.pairs, i \in ImageIds} :
     req.body.image_asset_id # db.pairs[req.pairId].image_asset_id}
JobDispatchReqs(db) ==
  {With(ctx, [body |-> [pairId |-> p, image_asset_id |-> db.pairs[p].image_asset_id]]) :
     ctx \in UploadAdmins, p \in {q \in DOMAIN db.pairs : db.pairs[q].mind_target_status = "failed"}}

NextJobs ==
  \/ DoCompleteUpload(AdminUploadReqs(DB), Cardinality(AdminAssets))
  \/ DoCreatePairStarting(JobCreatePairReqs(DB), MaxPairs)
  \/ DoPutPairStarting(JobPutPairReqs(DB))
  \/ DoDispatchJobStarting(JobDispatchReqs(DB))
  \/ DoJobDownload(BOOLEAN)
  \/ DoJobCompile(BOOLEAN)
  \/ DoJobSign(BOOLEAN)
  \/ DoJobPut
  \/ DoJobComplete
  \/ DoJobReport(Deliveries)
  \/ DoJobCatch(Deliveries)

SpecJobs == Init /\ [][NextJobs]_vars

\* The same service and runs where every run that was started takes its
\* steps to its end and every callback request is answered.
JobSteps ==
  \/ DoJobDownload(BOOLEAN)
  \/ DoJobCompile(BOOLEAN)
  \/ DoJobSign(BOOLEAN)
  \/ DoJobPut
  \/ DoJobComplete
  \/ DoJobReport({"answered"})
  \/ DoJobCatch({"answered"})

NextJobsLive ==
  \/ DoCompleteUpload(AdminUploadReqs(DB), Cardinality(AdminAssets))
  \/ DoCreatePairStarting(JobCreatePairReqs(DB), MaxPairs)
  \/ DoPutPairStarting(JobPutPairReqs(DB))
  \/ DoDispatchJobStarting(JobDispatchReqs(DB))
  \/ JobSteps

SpecJobsLive == Init /\ [][NextJobsLive]_vars /\ WF_vars(JobSteps)

\* ------------------------------------------------------------ requests that overlap
\* DELETE /experiences/:id awaits each of its two statements, and other
\* requests are served in between.  deleting holds the ids of the DELETE
\* requests that have run the first statement and not yet the second.

\* The gate and DELETE FROM pairs WHERE experience_id = ?
DeleteExperiencePairs(db, req) ==
  LET ofExp == {p \in DOMAIN db.pairs : db.pairs[p].experience_id = req.expId}
  IN  IF GateClosed(req) THEN Fail(db, 401)
      ELSE Result([db EXCEPT !.pairs = Remove(@, ofExp)], 200, [ok |-> TRUE])

\* DELETE FROM experiences WHERE id = ?, and the response
DeleteExperienceRow(db, req) ==
  Result([db EXCEPT !.experiences = Remove(@, {req.expId})], 200, [ok |-> TRUE])

ApplyDeleting(r, ids) ==
  /\ experiences' = r.db.experiences
  /\ pairs' = r.db.pairs
  /\ deleting' = ids
  /\ UNCHANGED <<nextExp, nextPair, assets, nextAsset, bucket, uploadUrls, jobs>>
  /\ UNCHANGED authVars

DoDeleteExperiencePairs(reqs) ==
  \E req \in reqs :
    LET r == DeleteExperiencePairs(DB, req)
    IN  /\ req.expId \notin deleting
        /\ ApplyDeleting(r, IF r.code = 200 THEN deleting \cup {req.expId} ELSE deleting)

DoDeleteExperienceRow(reqs) ==
  \E req \in reqs :
    /\ req.expId \in deleting
    /\ ApplyDeleting(DeleteExperienceRow(DB, req), deleting \ {req.expId})

\* The admin app addresses the experiences and pairs it lists; a DELETE of
\* an experience runs its two statements with other requests in between.
RaceDeleteReqs == {With(ctx, [expId |-> e]) : ctx \in CatalogAdmins, e \in 1..MaxCatalog}

NextRaces ==
  \/ DoCreateExperience(SiblingCreateExperienceReqs(DB), MaxCatalog)
  \/ DoDeleteExperiencePairs({req \in RaceDeleteReqs : req.expId \in DOMAIN experiences})
  \/ DoDeleteExperienceRow(RaceDeleteReqs)
  \/ DoCreatePair(CatalogCreatePairReqs(DB), MaxCatalog)
  \/ DoPutPair(CatalogPutPairReqs(DB))
  \/ DoDeletePair(CatalogDeletePairReqs(DB))

SpecRaces == Init /\ [][NextRaces]_vars

\* ------------------------------------------------------------ properties
Statuses == {"pending", "ready", "failed"}

\* The job secret the callback needs, stated on the request itself.
SecretPresented(req) ==
  /\ req.env.MINDAR_JOB_SECRET # ""
  /\ req.cred.jobHeader = req.env.MINDAR_JOB_SECRET

\* Completion callbacks for pair p that carry the configured job secret.
SecretCtxs == {ctx \in Ctxs : SecretPresented(ctx)}
CallbacksFor(p) ==
  {req \in CompleteJobReqs(DB, SecretCtxs) :
     Has(req.body, "pairId") /\ req.body.pairId = p}

\* C1: in every reachable state every pair's mind_target_status is one of
\* 'pending', 'ready', 'failed'.
C1_StatusDomain ==
  \A p \in DOMAIN pairs : pairs[p].mind_target_status \in Statuses

\* A pair has been through the callback and is ready.
C1_Witness ==
  \E p \in DOMAIN pairs :
    /\ pairs[p].mind_target_status = "ready"
    /\ pairs[p].mind_target_completed_at # NoTime

\* C2 (does not hold): a completion callback delivered for a pair that is already
\* 'ready' or 'failed' does not change that pair's status.
C2_DecidedStaysDecided ==
  \A p \in DOMAIN pairs :
    pairs[p].mind_target_status \in {"ready", "failed"} =>
      \A req \in CallbacksFor(p) :
        CompleteJob(DB, req).db.pairs[p].mind_target_status = pairs[p].mind_target_status

\* C3: every pair whose status is 'ready' has a mind_target_asset_id that is
\* neither null nor empty.
C3_ReadyHasAsset ==
  \A p \in DOMAIN pairs :
    pairs[p].mind_target_status = "ready" =>
      pairs[p].mind_target_asset_id # NULL /\ pairs[p].mind_target_asset_id # ""

\* A ready pair that has since been updated without an image change.
C3_Witness ==
  \E p \in DOMAIN pairs :
    /\ pairs[p].mind_target_status = "ready"
    /\ pairs[p].mind_target_asset_id = "mind2"
    /\ pairs[p].is_active = 0

\* C4 (does not hold): every pair whose status is 'failed' has a non-null
\* mind_target_error.
C4_FailedHasError ==
  \A p \in DOMAIN pairs :
    pairs[p].mind_target_status = "failed" => pairs[p].mind_target_error # NULL

\* A PUT /pairs/:id for pair p from a caller the gate admits.
AdminEverywhere == {Ctx(Admin, e, t, n) : e \in Envs, t \in Times, n \in NetResults}
UpdatesOf(p) == {req \in PutPairReqs(DB, AdminEverywhere) : req.pairId = p}

\* The image id a PUT asks for, as the handler reads it ("" when it names none).
RequestedImage(req) ==
  IF Has(req.body, "image_asset_id") THEN Trim(req.body.image_asset_id) ELSE ""

\* The fate of the workflow trigger, stated on the request itself.
TriggerSucceeded(req) == req.env.GITHUB /\ req.net = "ok"
TriggerRefused(req) == ~req.env.GITHUB \/ req.net = "notok"

\* C5: a PUT that changes the stored image_asset_id resets the generation
\* state whatever the prior status: mind_target_asset_id is null and the status
\* is 'pending' (or, when the trigger then reported failure, the 'failed' with
\* 'Dispatch failed' that the trigger's failure branch writes over it).
C5_ImageChangeResets ==
  \A p \in DOMAIN pairs : \A req \in UpdatesOf(p) :
    LET after == PutPair(DB, req).db.pairs[p]
    IN  after.image_asset_id # pairs[p].image_asset_id =>
          /\ after.mind_target_asset_id = NULL
          /\ \/ after.mind_target_status = "pending"
             \/ /\ TriggerRefused(req)
                /\ after.mind_target_status = "failed"
                /\ after.mind_target_error = "Dispatch failed"

\* What PUT does on the image: a trimmed image_asset_id that is non-empty and
\* differs from the stored one is stored and nulls mind_target_asset_id,
\* whatever the prior status; the status it leaves is 'failed' with
\* 'Dispatch failed' when the trigger reported failure and 'pending'
\* otherwise.  A whitespace-only image_asset_id replaces the stored id by ""
\* and resets nothing.
ImageChangeRedispatches ==
  \A p \in DOMAIN pairs : \A req \in UpdatesOf(p) :
    LET before == pairs[p]
        after == PutPair(DB, req).db.pairs[p]
        asked == RequestedImage(req)
    IN  /\ (asked # "" /\ asked # before.image_asset_id) =>
             /\ after.image_asset_id = asked
             /\ after.mind_target_asset_id = NULL
             /\ TriggerRefused(req) =>
                  /\ after.mind_target_status = "failed"
                  /\ after.mind_target_error = "Dispatch failed"
             /\ ~TriggerRefused(req) =>
                  /\ after.mind_target_status = "pending"
                  /\ after.mind_target_error = NULL
        /\ (Has(req.body, "image_asset_id") /\ asked = "") =>
             /\ after.image_asset_id = ""
             /\ after.mind_target_status = before.mind_target_status
             /\ after.mind_target_asset_id = before.mind_target_asset_id

\* A pair that had been through a callback, then got a new image while the
\* workflow could not be triggered.
ImageChangedWhileUntriggerable ==
  \E p \in DOMAIN pairs :
    /\ pairs[p].image_asset_id = "img2"
    /\ pairs[p].mind_target_completed_at # NoTime
    /\ pairs[p].mind_target_asset_id = NULL
    /\ pairs[p].mind_target_status = "failed"
    /\ pairs[p].mind_target_error = "Dispatch failed"

\* Every request of every state-changing route, with the result of its handler.
Callers == AdminCtxs \cup JobCtxs
Step(op, req, res) == [op |-> op, req |-> req, res |-> res]
Steps ==
  {Step("createExperience", q, CreateExperience(DB, q)) : q \in CreateExperienceReqs(DB, Callers)}
    \cup {Step("putExperience", q, PutExperience(DB, q)) : q \in PutExperienceReqs(DB, Callers)}
    \cup {Step("deleteExperience", q, DeleteExperience(DB, q)) : q \in DeleteExperienceReqs(DB, Callers)}
    \cup {Step("createPair", q, CreatePair(DB, q)) : q \in CreatePairReqs(DB, Callers)}
    \cup {Step("putPair", q, PutPair(DB, q)) : q \in PutPairReqs(DB, Callers)}
    \cup {Step("deletePair", q, DeletePair(DB, q)) : q \in DeletePairReqs(DB, Callers)}
    \cup {Step("dispatch", q, DispatchJob(DB, q)) : q \in DispatchJobReqs(DB, Callers)}
    \cup {Step("complete", q, CompleteJob(DB, q)) : q \in CompleteJobReqs(DB, Callers)}

\* C6: a pair that is 'ready' or 'failed' is 'pending' after a request only if
\* the request is a PUT /pairs/:id of that pair naming another image, or a
\* /jobs/mindar/dispatch for that pair.
C6_PendingOnlyByImageOrRetry ==
  \A s \in Steps : \A p \in DOMAIN pairs :
    ( /\ pairs[p].mind_target_status \in {"ready", "failed"}
      /\ p \in DOMAIN s.res.db.pairs
      /\ s.res.db.pairs[p].mind_target_status = "pending" ) =>
          \/ /\ s.op = "putPair"
             /\ s.req.pairId = p
             /\ RequestedImage(s.req) # ""
             /\ RequestedImage(s.req) # pairs[p].image_asset_id
          \/ /\ s.op = "dispatch"
             /\ Has(s.req.body, "pairId")
             /\ s.req.body.pairId = p

\* A pair that was completed and is pending again with its old target (a
\* retry) beside a sibling that stayed decided.
C6_Witness ==
  \E p, o \in DOMAIN pairs :
    /\ o # p
    /\ pairs[p].mind_target_status = "pending"
    /\ pairs[p].mind_target_completed_at # NoTime
    /\ pairs[p].mind_target_asset_id \in MindIds
    /\ pairs[o].mind_target_status = "ready"

\* The pair a request asks to (re)generate, and what the handler answers:
\* pair creation, an image change and an explicit retry.
Triggers ==
  {[pair |-> uuid(nextPair), req |-> q, res |-> CreatePair(DB, q)] :
      q \in {c \in CreatePairReqs(DB, AdminEverywhere) :
               Has(c.body, "video_asset_id") /\ Trim(c.body.image_asset_id) # ""}}
    \cup {[pair |-> q.pairId, req |-> q, res |-> PutPair(DB, q)] :
      q \in {c \in PutPairReqs(DB, AdminEverywhere) :
               /\ c.pairId \in DOMAIN pairs
               /\ RequestedImage(c) # ""
               /\ RequestedImage(c) # pairs[c.pairId].image_asset_id}}
    \cup {[pair |-> q.body.pairId, req |-> q, res |-> DispatchJob(DB, q)] :
      q \in {c \in DispatchJobReqs(DB, AdminEverywhere) :
               Has(c.body, "pairId") /\ c.body.pairId \in DOMAIN pairs}}

\* C7 (does not hold): whenever the trigger fails the request still answers 200
\* and leaves the pair 'failed' with 'Dispatch failed'; when it succeeds the
\* pair is left 'pending'.
C7_TriggerFailureRecorded ==
  \A t \in Triggers :
    LET after == t.res.db.pairs[t.pair]
    IN  /\ t.res.code = 200
        /\ TriggerSucceeded(t.req) => after.mind_target_status = "pending"
        /\ ~TriggerSucceeded(t.req) =>
             /\ after.mind_target_status = "failed"
             /\ after.mind_target_error = "Dispatch failed"

\* What the trigger's callers do hold: when the fetch of the workflow
\* dispatch resolves (or is not attempted for want of configuration), the
\* request answers 200 and the pair is 'pending' after a success and 'failed'
\* with 'Dispatch failed' after a refusal; when the fetch rejects, the request
\* answers 500 and the pair is left 'pending'.
TriggerOutcomeRecorded ==
  \A t \in Triggers :
    LET after == t.res.db.pairs[t.pair]
    IN  /\ TriggerSucceeded(t.req) =>
             t.res.code = 200 /\ after.mind_target_status = "pending"
        /\ TriggerRefused(t.req) =>
             /\ t.res.code = 200
             /\ after.mind_target_status = "failed"
             /\ after.mind_target_error = "Dispatch failed"
        /\ (~TriggerSucceeded(t.req) /\ ~TriggerRefused(t.req)) =>
             t.res.code = 500 /\ after.mind_target_status = "pending"

\* ORDER BY priority DESC, id DESC LIMIT 1, stated on the rows: p is active
\* and no other active pair of its experience comes before it.
IsSelected(db, p) ==
  /\ p \in DOMAIN db.pairs
  /\ db.pairs[p].is_active = 1
  /\ \A o \in DOMAIN db.pairs \ {p} :
       (db.pairs[o].experience_id = db.pairs[p].experience_id /\ db.pairs[o].is_active = 1) =>
         \/ db.pairs[o].priority < db.pairs[p].priority
         \/ db.pairs[o].priority = db.pairs[p].priority /\ o < p

\* The public responses that resolved the experience of pair p while p is
\* the pair it selects.
ResolutionsOf(db, p) ==
  {resp \in UNION {PublicExperience(db, q) : q \in QrIds} :
     /\ resp.code = 200
     /\ resp.out.experience = db.pairs[p].experience_id
     /\ IsSelected(db, p)}

\* C8: after an authenticated callback with a non-empty error e for pair p, p
\* is 'failed' with mind_target_error = e verbatim and a completion time; a
\* public resolution that selects p reports 'failed', no mindarTargetUrl, and
\* the URL of p's video asset (when p has one).
C8_ErrorCallback ==
  \A p \in DOMAIN pairs : \A req \in CallbacksFor(p) :
    (Has(req.body, "error") /\ req.body.error # "") =>
      LET res == CompleteJob(DB, req)
          after == res.db.pairs[p]
      IN  /\ res.code = 200
          /\ after.mind_target_status = "failed"
          /\ after.mind_target_error = req.body.error
          /\ after.mind_target_completed_at = req.now
          /\ after.mind_target_completed_at # NoTime
          /\ \A resp \in ResolutionsOf(res.db, p) :
               /\ resp.out.mind_target_status = "failed"
               /\ resp.out.mindarTargetUrl = NULL
               /\ after.video_asset_id # "" =>
                    resp.out.videoUrl = PublicAssetUrl(after.video_asset_id)

\* Rival(p, o): o is another active pair of p's experience.
Rival(p, o) ==
  /\ o # p
  /\ pairs[o].experience_id = pairs[p].experience_id
  /\ pairs[o].is_active = 1

\* A pair failed by a callback, its error stored as sent, selected ahead of a
\* ready rival and resolved publicly with its video.
C8_Witness ==
  \E p, o \in DOMAIN pairs :
    /\ Rival(p, o)
    /\ pairs[o].mind_target_status = "ready"
    /\ pairs[p].mind_target_status = "failed"
    /\ pairs[p].mind_target_error = "timeout"
    /\ pairs[p].mind_target_completed_at # NoTime
    /\ \E resp \in ResolutionsOf(DB, p) :
         resp.out.videoUrl = "/public/assets/vid1" /\ resp.out.mindarTargetUrl = NULL

\* C9: after an authenticated callback with a mindAssetId and no error for a
\* pending pair p, p is 'ready' with that asset id and a null error; a public
\* resolution that selects p returns the URL of that asset.
C9_SuccessCallback ==
  \A p \in DOMAIN pairs : \A req \in CallbacksFor(p) :
    ( /\ pairs[p].mind_target_status = "pending"
      /\ Has(req.body, "mindAssetId") /\ req.body.mindAssetId \in MindIds
      /\ (Has(req.body, "error") => req.body.error = "") ) =>
      LET res == CompleteJob(DB, req)
          after == res.db.pairs[p]
      IN  /\ res.code = 200
          /\ after.mind_target_status = "ready"
          /\ after.mind_target_asset_id = req.body.mindAssetId
          /\ after.mind_target_error = NULL
          /\ \A resp \in ResolutionsOf(res.db, p) :
               /\ resp.out.mindarTargetUrl # NULL
               /\ resp.out.mindarTargetUrl = PublicAssetUrl(req.body.mindAssetId)

\* A ready pair selected ahead of a failed rival, whose experience resolves
\* publicly to its target.
C9_Witness ==
  \E p, o \in DOMAIN pairs :
    /\ Rival(p, o)
    /\ pairs[o].mind_target_status = "failed"
    /\ pairs[p].mind_target_status = "ready"
    /\ pairs[p].mind_target_error = NULL
    /\ \E resp \in ResolutionsOf(DB, p) : resp.out.mindarTargetUrl = "/public/assets/mind1"

\* C10: a callback whose x-job-secret is not exactly a non-empty configured
\* secret is answered 401 and changes no row, whatever bearer token it has;
\* one that carries the secret is not answered 401.
C10_CallbackNeedsSecret ==
  \A req \in CompleteJobReqs(DB, Ctxs) :
    LET res == CompleteJob(DB, req)
    IN  IF SecretPresented(req) THEN res.code # 401
        ELSE res.code = 401 /\ res.db = DB

\* A pair that an authorised callback without an asset id has failed.
C10_Witness ==
  \E p \in DOMAIN pairs :
    /\ pairs[p].mind_target_status = "failed"
    /\ pairs[p].mind_target_error = "MindAR generation failed"
    /\ pairs[p].mind_target_completed_at # NoTime

\* ------------------------------------------------------------ public resolution
\* Every response GET /public/experience/:qr can give in the current state.
Responses == UNION {PublicExperience(DB, q) : q \in QrIds}
ActivePairsOf(db, e) ==
  {p \in DOMAIN db.pairs : db.pairs[p].experience_id = e /\ db.pairs[p].is_active = 1}
NullPayload(e) ==
  [experience |-> e, mindarTargetUrl |-> NULL, videoUrl |-> NULL, mind_target_status |-> NULL]

\* C11: in every 200 response of the public resolution mindarTargetUrl is
\* non-null exactly when mind_target_status is 'ready'; an active experience
\* with no active pair is answered 200 with mindarTargetUrl, videoUrl and
\* mind_target_status all null.
C11_StatusAgreesWithUrl ==
  /\ \A resp \in Responses :
       resp.code = 200 =>
         (resp.out.mindarTargetUrl # NULL <=> resp.out.mind_target_status = "ready")
  /\ \A e \in DOMAIN experiences :
       (experiences[e].is_active = 1 /\ ActivePairsOf(DB, e) = {}) =>
         /\ Result(DB, 200, NullPayload(e)) \in PublicExperience(DB, experiences[e].qr_id)
         /\ \A resp \in PublicExperience(DB, experiences[e].qr_id) :
              (resp.code = 200 /\ resp.out.experience = e) => resp.out = NullPayload(e)

\* An active experience whose pairs are all switched off, one of them ready
\* with its target, another pending again with its old target.
C11_Witness ==
  \E e \in DOMAIN experiences : \E p, o \in DOMAIN pairs :
    /\ experiences[e].is_active = 1
    /\ ActivePairsOf(DB, e) = {}
    /\ pairs[p].experience_id = e /\ pairs[o].experience_id = e
    /\ pairs[p].mind_target_status = "ready" /\ pairs[p].mind_target_asset_id = "mind1"
    /\ pairs[o].mind_target_status = "pending" /\ pairs[o].mind_target_asset_id = "mind1"
    /\ Result(DB, 200, NullPayload(e)) \in Responses

\* The experiences that carry code q, and the active ones among them.
WithCode(q) == {e \in DOMAIN experiences : experiences[e].qr_id = q}
ActiveWithCode(q) == {e \in WithCode(q) : experiences[e].is_active = 1}

\* C12 (does not hold): the public resolution of code q answers with an active
\* experience of code q whenever one exists, and answers 404 only when no
\* experience has code q or none of them is active, also when several
\* experiences share q.
C12_ResolvesToActive ==
  \A q \in QrIds : \A resp \in PublicExperience(DB, q) :
    /\ ActiveWithCode(q) # {} =>
         resp.code = 200 /\ resp.out.experience \in ActiveWithCode(q)
    /\ resp.code = 404 => ActiveWithCode(q) = {}

\* What the resolution does hold: it answers for one row of code q, whichever
\* the unordered LIMIT 1 returns: 404 when that row is inactive (or no row
\* has the code), its payload otherwise.
ResolvesSomeRow ==
  \A q \in QrIds : \A resp \in PublicExperience(DB, q) :
    /\ resp.code \in {200, 404}
    /\ resp.code = 200 => resp.out.experience \in ActiveWithCode(q)
    /\ resp.code = 404 => WithCode(q) # ActiveWithCode(q) \/ WithCode(q) = {}
    /\ Cardinality(WithCode(q)) <= 1 => Cardinality(PublicExperience(DB, q)) = 1

\* What a response reports of pair row r.
ReportOf(e, r) ==
  [experience |-> e,
   mindarTargetUrl |-> IF r.mind_target_status = "ready" /\ r.mind_target_asset_id \notin {NULL, ""}
                       THEN PublicAssetUrl(r.mind_target_asset_id) ELSE NULL,
   videoUrl |-> IF r.video_asset_id \notin {NULL, ""} THEN PublicAssetUrl(r.video_asset_id) ELSE NULL,
   mind_target_status |-> r.mind_target_status]

\* C13: a 200 response for experience e reports exactly one pair: among the
\* active pairs of e, the one of greatest priority, the greatest id among
\* equals; pairs that are inactive or belong to another experience are not
\* reported (without an active pair, nothing is).
C13_SelectsTopActivePair ==
  \A resp \in Responses :
    resp.code = 200 =>
      LET e == resp.out.experience
          top == {p \in ActivePairsOf(DB, e) :
                    \A o \in ActivePairsOf(DB, e) \ {p} :
                      \/ pairs[o].priority < pairs[p].priority
                      \/ pairs[o].priority = pairs[p].priority /\ o < p}
      IN  /\ ActivePairsOf(DB, e) # {} =>
               /\ Cardinality(top) = 1
               /\ \A p \in top : resp.out = ReportOf(e, pairs[p])
          /\ ActivePairsOf(DB, e) = {} => resp.out = NullPayload(e)

\* Experience e resolves to its pair p, ready with "mind2", while it also
\* has an inactive pair of higher priority, or an active one of the same
\* priority and smaller id, that is ready with "mind1".
C13_Witness ==
  \E e \in DOMAIN experiences : \E p, o \in DOMAIN pairs :
    /\ pairs[p].experience_id = e /\ pairs[o].experience_id = e
    /\ pairs[p].is_active = 1
    /\ pairs[p].mind_target_status = "ready" /\ pairs[p].mind_target_asset_id = "mind2"
    /\ pairs[o].mind_target_status = "ready" /\ pairs[o].mind_target_asset_id = "mind1"
    /\ \/ pairs[o].is_active = 0 /\ pairs[o].priority > pairs[p].priority
       \/ pairs[o].is_active = 1 /\ pairs[o].priority = pairs[p].priority /\ o < p
    /\ \E resp \in Responses :
         resp.code = 200 /\ resp.out.experience = e
           /\ resp.out.mindarTargetUrl = "/public/assets/mind2"

\* Experience e resolves to its own pending pair while a ready pair of higher
\* priority belongs to another experience.
OtherExperiencesPairIgnored ==
  \E e \in DOMAIN experiences : \E p, o \in DOMAIN pairs :
    /\ pairs[p].experience_id = e /\ pairs[o].experience_id # e
    /\ pairs[p].is_active = 1 /\ pairs[o].is_active = 1
    /\ pairs[o].priority > pairs[p].priority
    /\ pairs[p].mind_target_status = "pending" /\ pairs[o].mind_target_status = "ready"
    /\ \E resp \in Responses :
         resp.code = 200 /\ resp.out.experience = e /\ resp.out.mind_target_status = "pending"

\* ------------------------------------------------------------ ownership
PairsOf(db, e) == {p \in DOMAIN db.pairs : db.pairs[p].experience_id = e}
Listed(db, ctx, e) ==
  LET out == ListPairs(db, With(ctx, [expId |-> e])).out.pairs
  IN  {out[i].id : i \in DOMAIN out}

\* C14: after an admitted DELETE /experiences/:id neither the experience nor
\* any pair with that experience_id remains, the other pairs are as they
\* were, the experience lists no pair, and a PUT /pairs/:id of a pair that
\* belonged to it is answered 404 and changes nothing.
C14_DeleteExperienceCascades ==
  \A req \in DeleteExperienceReqs(DB, CatalogAdmins \cup SiblingJobs) :
    ~GateClosed(req) =>
      LET res == DeleteExperience(DB, req)
          gone == PairsOf(DB, req.expId)
      IN  /\ res.code = 200
          /\ req.expId \notin DOMAIN res.db.experiences
          /\ PairsOf(res.db, req.expId) = {}
          /\ DOMAIN res.db.pairs = DOMAIN pairs \ gone
          /\ \A p \in DOMAIN res.db.pairs : res.db.pairs[p] = pairs[p]
          /\ Listed(res.db, req, req.expId) = {}
          /\ \A u \in PutPairReqs(res.db, CatalogAdmins) :
               u.pairId \in gone => PutPair(res.db, u) = Fail(res.db, 404)

\* One experience was deleted with the pair it had; the other is still there
\* with its own pair.
C14_Witness ==
  /\ nextExp = 2 /\ nextPair = 2
  /\ Cardinality(DOMAIN experiences) = 1
  /\ Cardinality(DOMAIN pairs) = 1
  /\ \A p \in DOMAIN pairs : pairs[p].experience_id \in DOMAIN experiences
  /\ \A p \in DOMAIN pairs : \A u \in PutPairReqs(DB, CatalogAdmins) :
       u.pairId \in (1..nextPair) \ {p} => PutPair(DB, u).code = 404

\* The PUT /pairs/:id requests that name an experience for an existing pair.
Moves == {u \in PutPairReqs(DB, CatalogAdmins) :
            u.pairId \in DOMAIN pairs /\ Has(u.body, "experience_id")}

BodyColumns ==
  {"experience_id", "image_asset_id", "video_asset_id", "image_fingerprint",
   "threshold", "priority", "is_active"}
DerivedColumns ==
  {"mind_target_status", "mind_target_asset_id", "mind_target_requested_at",
   "mind_target_completed_at"}
Admitted(p) == {u \in UpdatesOf(p) : ~GateClosed(u)}

\* C17 (does not hold): after a PUT /pairs/:id every column the body does not
\* name has the value it had and, when the image is not changed, so have the
\* status, the target asset id, the error message and the request time.
C17_PatchSemantics ==
  \A p \in DOMAIN pairs : \A u \in Admitted(p) :
    LET before == pairs[p]
        after == PutPair(DB, u).db.pairs[p]
    IN  /\ \A f \in BodyColumns : ~Has(u.body, f) => after[f] = before[f]
        /\ after.image_asset_id = before.image_asset_id =>
             /\ \A f \in DerivedColumns : after[f] = before[f]
             /\ after.mind_target_error = before.mind_target_error

\* What PUT /pairs/:id does hold: the same of every column but the error
\* message, which is null after every PUT that leaves the image as it was.
PatchSemanticsButError ==
  \A p \in DOMAIN pairs : \A u \in Admitted(p) :
    LET before == pairs[p]
        after == PutPair(DB, u).db.pairs[p]
    IN  /\ \A f \in BodyColumns : ~Has(u.body, f) => after[f] = before[f]
        /\ after.image_asset_id = before.image_asset_id =>
             /\ \A f \in DerivedColumns : after[f] = before[f]
             /\ after.mind_target_error = NULL

\* ------------------------------------------------------------ uploads and assets
\* C15 (does not hold): the image_asset_id and video_asset_id of every pair
\* are ids of asset rows, which /uploads/complete inserted before the pair
\* came to reference them.
C15_PairAssetsExist ==
  \A p \in DOMAIN pairs :
    /\ pairs[p].image_asset_id \in DOMAIN assets
    /\ pairs[p].video_asset_id \in DOMAIN assets

\* What the pair routes do hold of the asset ids: an admitted creation stores
\* the two trimmed ids of the body when both are non-empty, and an update the
\* trimmed ids the body names, whether or not an asset row has them.
PairAssetsAsSent ==
  /\ \A c \in UploadCreatePairReqs :
       LET res == CreatePair(DB, c)
       IN  /\ res.code = 200
           /\ res.db.pairs[res.out.id].image_asset_id = c.body.image_asset_id
           /\ res.db.pairs[res.out.id].video_asset_id = c.body.video_asset_id
           /\ res.db.assets = assets
  /\ \A u \in UploadPutPairReqs(DB) :
       LET res == PutPair(DB, u)
       IN  /\ res.code = 200
           /\ res.db.pairs[u.pairId].image_asset_id = u.body.image_asset_id
           /\ res.db.assets = assets

\* The keys and tokens a caller of PUT /uploads/put/:key can present: those
\* of the URLs that were issued, keys that were never signed, no key, no
\* token, and a signature made with a key that is not the server's.
AnyKeys == {u.r2Key : u \in uploadUrls} \cup {"image/u1-a.png", "video/u1-b_c.mp4", "image/u2-a.png", ""}
ForgedSignature == hmacSign("forged", "upload:image/u1-a.png")
AnyPuts ==
  {[env |-> EnvFull, r2Key |-> k, token |-> t, mime |-> m, data |-> d] :
     k \in AnyKeys, t \in {u.token : u \in SignedUrls} \cup {NoSignature, ForgedSignature},
     m \in {"", "image/png"}, d \in UploadData}
ForgedPayloadToken == signPayload([r2Key |-> "uploads/image/u1-a.png", exp |-> MaxUploadTime], "forged")
AnyExpiringPuts ==
  {[env |-> EnvFull, r2Key |-> k, token |-> t, now |-> n, data |-> d, contentType |-> "image/png"] :
     k \in AnyKeys \cup {"uploads/image/u1-a.png"},
     t \in {u.token : u \in ExpiringUrls} \cup {NoPayloadToken, ForgedPayloadToken},
     n \in UploadTimes, d \in UploadData}

\* The tokens /uploads/sign has issued for key k.
IssuedFor(urls, k) == {u.token : u \in {v \in urls : v.r2Key = k}}

\* C18: PUT /uploads/put/:key writes the object of key k only when the token
\* is the one issued for exactly k (and, for a token that carries its expiry,
\* not after that time); it then stores the data under k alone.  Without a
\* token, with the token of another key, a signature of another secret or an
\* expired token it answers 401 or 403 (404 without a key) and the Object
\* Store is unchanged.
C18_PutNeedsOwnSignature ==
  /\ \A req \in AnyPuts :
       LET res == PutUpload(DB, req)
       IN  IF req.r2Key # "" /\ req.token \in IssuedFor(SignedUrls, req.r2Key)
           THEN /\ res.code = 200
                /\ res.db = [DB EXCEPT !.bucket = Insert(@, req.r2Key, res.db.bucket[req.r2Key])]
                /\ res.db.bucket[req.r2Key].data = req.data
           ELSE /\ res.code = IF req.r2Key = "" THEN 404 ELSE 401
                /\ res.db = DB
  /\ \A req \in AnyExpiringPuts :
       LET res == PutUploadExpiring(DB, req)
       IN  IF req.token \in IssuedFor(ExpiringUrls, req.r2Key) /\ req.now <= req.token.payload.exp
           THEN /\ res.code = 200
                /\ res.db = [DB EXCEPT !.bucket = Insert(@, req.r2Key, res.db.bucket[req.r2Key])]
                /\ res.db.bucket[req.r2Key].data = req.data
           ELSE /\ res.code \in {401, 403}
                /\ res.db = DB

\* Two keys were signed and only one of them was written; an expiring token
\* was issued and used, and its time has passed.
C18_Witness ==
  /\ \E u, v \in SignedUrls :
       u.r2Key # v.r2Key /\ u.r2Key \in DOMAIN bucket /\ v.r2Key \notin DOMAIN bucket
  /\ \E x \in ExpiringUrls :
       x.token.payload.exp < MaxUploadTime /\ x.r2Key \in DOMAIN bucket

\* A second PUT with the key and signature of req, with any content, later.
Replays(req) == {[req EXCEPT !.data = d] : d \in UploadData}
ExpiringReplays(req) ==
  {[req EXCEPT !.data = d, !.now = n] : d \in UploadData, n \in {t \in UploadTimes : t >= req.now}}

\* C19: a signature is good for one upload: after a successful
\* PUT with a key and its signature, a further PUT with the same key and
\* signature does not succeed and does not overwrite the stored object.
C19_SignatureUsedOnce ==
  /\ \A req \in AnyPuts :
       LET first == PutUpload(DB, req)
       IN  first.code = 200 =>
             \A again \in Replays(req) :
               LET second == PutUpload(first.db, again)
               IN  second.code # 200 /\ second.db.bucket = first.db.bucket
  /\ \A req \in AnyExpiringPuts :
       LET first == PutUploadExpiring(DB, req)
       IN  first.code = 200 =>
             \A again \in ExpiringReplays(req) :
               LET second == PutUploadExpiring(first.db, again)
               IN  second.code # 200 /\ second.db.bucket = first.db.bucket

\* What the routes do instead: a signature is good for any number of
\* uploads: after a
\* successful PUT with a key and its signature, a further PUT with the same
\* key and signature succeeds again and the object of that key is the body
\* of the last PUT, the rest of the Object Store being as it was; a token
\* that carries its expiry is good in this way until that time and is
\* answered 403, the store unchanged, after it.
ReplaySucceeds ==
  /\ \A req \in AnyPuts :
       LET first == PutUpload(DB, req)
       IN  first.code = 200 =>
             \A again \in Replays(req) :
               LET second == PutUpload(first.db, again)
               IN  /\ second.code = 200
                   /\ second.db.bucket[req.r2Key].data = again.data
                   /\ \A k \in DOMAIN first.db.bucket \ {req.r2Key} :
                        second.db.bucket[k] = first.db.bucket[k]
                   /\ DOMAIN second.db.bucket = DOMAIN first.db.bucket
  /\ \A req \in AnyExpiringPuts :
       LET first == PutUploadExpiring(DB, req)
       IN  first.code = 200 =>
             \A again \in ExpiringReplays(req) :
               LET second == PutUploadExpiring(first.db, again)
               IN  IF again.now <= req.token.payload.exp
                   THEN /\ second.code = 200
                        /\ second.db.bucket[req.r2Key].data = again.data
                        /\ DOMAIN second.db.bucket = DOMAIN first.db.bucket
                   ELSE second.code = 403 /\ second.db = first.db

\* Objects stand under a signed key and under a key of an expiring token
\* that can still be used, each with the second of the two contents.
ReplayReachable ==
  /\ \E u \in SignedUrls :
       u.r2Key \in DOMAIN bucket /\ bucket[u.r2Key].data = "d2"
  /\ \E x \in ExpiringUrls :
       /\ x.r2Key \in DOMAIN bucket /\ bucket[x.r2Key].data = "d2"
       /\ x.token.payload.exp >= MaxUploadTime

\* ------------------------------------------------------------ the gate of /uploads
\* The callers of the gated upload routes: every credential, env and answer
\* of the network, now and after the bearer token has run out.
AfterExpiry == GoodPayload.exp + 1
UploadCallers ==
  Ctxs \cup {Ctx(c, e, AfterExpiry, n) : c \in Creds, e \in Envs, n \in NetResults}

\* The callers of PUT /uploads/put/:key, whose env and network play no part.
PutCallers == {ctx \in UploadCallers : ctx.env = EnvFull /\ ctx.net = "ok"}

\* A valid, unexpired bearer token, or the job secret of a deployment that has one.
Authorised(req) ==
  \/ req.cred.token = GoodToken /\ req.now <= GoodPayload.exp
  \/ req.env.MINDAR_JOB_SECRET = "s1" /\ req.cred.jobHeader = "s1"

CompleteUploadBodies ==
  {[kind |-> "image", r2Key |-> "image/u1-a.png", mime |-> "image/png", size |-> 1],
   [r2Key |-> "image/u1-a.png"], [kind |-> "video", r2Key |-> " "]}

\* C20: POST /uploads/sign and POST /uploads/complete answer 401, with no
\* upload URL and no asset row, to a caller that presents neither a valid,
\* unexpired bearer token nor a valid job secret, and do not answer 401 to
\* a caller that presents one; PUT /uploads/put/:key is the one upload
\* route that answers the same whatever credentials the caller presents.
C20_UploadsNeedCredential ==
  /\ \A req \in SignUploadReqs(UploadCallers) :
       LET res == SignUpload(DB, req)
       IN  IF Authorised(req)
           THEN res.code = 200 /\ Has(res.out, "uploadUrl")
           ELSE res.code = 401 /\ ~Has(res.out, "uploadUrl") /\ res.db = DB
  /\ \A ctx \in UploadCallers : \A b \in CompleteUploadBodies :
       LET res == CompleteUpload(DB, With(ctx, [body |-> b]))
       IN  IF Authorised(ctx)
           THEN res.code # 401
           ELSE res.code = 401 /\ res.db = DB /\ ~Has(res.out, "id")
  /\ \A ctx \in PutCallers : \A put \in PutUploadReqs(SignedUrls) :
       LET res == PutUpload(DB, With(ctx, [r2Key |-> put.r2Key, token |-> put.token,
                                          mime |-> put.mime, data |-> put.data]))
       IN  res.code = 200 /\ res.db.bucket[put.r2Key].data = put.data

\* An upload URL was issued, its object was written and an asset row was
\* inserted for its key, while the routes refuse the anonymous caller.
C20_Witness ==
  /\ \E u \in SignedUrls :
       /\ u.r2Key \in DOMAIN bucket
       /\ \E a \in DOMAIN assets : assets[a].r2_key = u.r2Key
  /\ \E req \in SignUploadReqs({Ctx(Anon, EnvFull, MaxTime, "ok")}) : SignUpload(DB, req).code = 401

\* ------------------------------------------------------------ tokens and sessions
\* The bearer tokens a caller can present: those that were issued, each of
\* them signed with another key, each of them with its expiry moved to the
\* end of time under its old signature.
Resigned(token) == [token EXCEPT !.sig = hmacSign("forged", token.payload)]
Prolonged(token) == [token EXCEPT !.payload.exp = MaxClock + TokenTtl]
PresentedTokens ==
  issued \cup {Resigned(t) : t \in issued} \cup {Prolonged(t) : t \in issued}

\* C21: verifyToken accepts a token exactly when its signature is the HMAC
\* of its payload under the server's secret and the clock is not past the
\* expiry in the payload, which login sets seven days after the issue; a
\* token with another signature or a past expiry is answered 401, and after
\* POST /auth/logout an unexpired token is accepted as before.
C21_VerifyBySignatureAndExpiry ==
  /\ \A t \in PresentedTokens :
       (verifyToken(EnvFull, t, clock) # NULL)
         <=> (t.sig = hmacSign(EnvFull.SIGNING_SECRET, t.payload) /\ clock <= t.payload.exp)
  /\ \A req \in BearerReqs(PresentedTokens) :
       Me(req).code = IF verifyToken(EnvFull, req.cred.token, clock) # NULL THEN 200 ELSE 401
  /\ \A req \in BearerReqs({NoToken}) : Me(req).code = 401
  /\ \A req \in LoginReqs :
       Login(req).code = 200 => Login(req).out.token.payload.exp = clock + TokenTtl
  /\ \A t \in issued : t.payload.exp <= clock + TokenTtl
  /\ \A req \in BearerReqs(issued) :
       clock <= req.cred.token.payload.exp => Logout(req).code = 200 /\ Me(req).code = 200

\* One issued token has run out and another is still good.
C21_Witness ==
  /\ \E t \in issued : clock > t.payload.exp
  /\ \E t \in issued : clock <= t.payload.exp /\ clock > t.payload.exp - TokenTtl

\* The session tokens a caller can present: those that login has returned,
\* one that it never returned, and none.
AnySessionTokens == SessionTokens \cup {"t9", ""}
Authenticated(sdb, now, t) == SessionMe(sdb, [now |-> now, token |-> t]).code = 200

\* C22: a request is authenticated only while the sessions table has a row
\* for its token whose expires_at, seven days after the login, is not past
\* and whose user is active; a request with an expired token is refused and
\* deletes the row; after POST /auth/logout with a token, and from any
\* moment at which a returned token is refused, every later request with
\* that token is refused.
C22_SessionWhileRowLives ==
  /\ [](\A t \in AnySessionTokens :
          /\ Authenticated(SDB, clock, t) <=>
               /\ t \in DOMAIN sessions
               /\ sessions[t].expires_at >= clock
               /\ sessions[t].user_id \in DOMAIN users
               /\ users[sessions[t].user_id].is_active
          /\ (t \in DOMAIN sessions /\ sessions[t].expires_at < clock) =>
               t \notin DOMAIN SessionMe(SDB, [now |-> clock, token |-> t]).db.sessions
          /\ \A later \in clock..MaxClock :
               ~Authenticated(SessionLogout(SDB, [now |-> clock, token |-> t]).db, later, t))
  /\ [](\A req \in SessionLoginReqs :
          LET res == SessionLogin(SDB, req)
          IN  res.code = 200 => res.db.sessions[res.out.token].expires_at = clock + SessionTtl)
  /\ [][\A t \in SessionTokens :
          ~Authenticated(SDB, clock, t) => ~Authenticated(SDB', clock', t)]_vars

\* One returned token has lost its row, and the row of another is past its
\* expiry and still in the table.
C22_Witness ==
  /\ \E t \in SessionTokens : t \notin DOMAIN sessions
  /\ \E t \in DOMAIN sessions : sessions[t].expires_at < clock

\* ------------------------------------------------------------ unknown ids
\* Ids and codes that no row has (never issued, or of a deleted row).
UnknownExps == (GhostId..(MaxCatalog + 1)) \ DOMAIN experiences
UnknownPairs == (GhostId..(MaxCatalog + 1)) \ DOMAIN pairs
UnknownCodes == (QrIds \cup {"q9"}) \ {experiences[e].qr_id : e \in DOMAIN experiences}
NotFound(res) == res.code = 404 /\ res.db = DB

\* C23: a request that addresses an experience id, a pair id or a code that
\* no row has is answered 404 and leaves experiences and pairs as they were:
\* GET, PUT and DELETE /experiences/:id, POST /experiences/:id/pairs, PUT and
\* DELETE /pairs/:id and the public resolution.
C23_UnknownIsNotFound ==
  \A ctx \in CatalogAdmins :
    /\ \A e \in UnknownExps :
         /\ NotFound(GetExperience(DB, With(ctx, [expId |-> e])))
         /\ NotFound(PutExperience(DB, With(ctx, [expId |-> e, body |-> [is_active |-> FALSE]])))
         /\ NotFound(DeleteExperience(DB, With(ctx, [expId |-> e])))
         /\ NotFound(CreatePair(DB, With(ctx, [expId |-> e,
                       body |-> [image_asset_id |-> "img1", video_asset_id |-> "vid1"]])))
    /\ \A p \in UnknownPairs :
         /\ NotFound(PutPair(DB, With(ctx, [pairId |-> p, body |-> [is_active |-> FALSE]])))
         /\ NotFound(DeletePair(DB, With(ctx, [pairId |-> p])))
    /\ \A q \in UnknownCodes : \A res \in PublicExperience(DB, q) : NotFound(res)

\* What the routes do with an unknown id: those that read the row first
\* answer 404 and change nothing; the two DELETEs answer 200 with nothing
\* deleted; POST /experiences/:id/pairs inserts a pair of the unknown
\* experience and answers 200.
UnknownWhereLookedUp ==
  \A ctx \in CatalogAdmins :
    /\ \A e \in UnknownExps :
         /\ NotFound(GetExperience(DB, With(ctx, [expId |-> e])))
         /\ NotFound(PutExperience(DB, With(ctx, [expId |-> e, body |-> [is_active |-> FALSE]])))
         /\ LET res == DeleteExperience(DB, With(ctx, [expId |-> e]))
            IN  res.code = 200 /\ res.db.experiences = experiences
         /\ LET res == CreatePair(DB, With(ctx, [expId |-> e,
                         body |-> [image_asset_id |-> "img1", video_asset_id |-> "vid1"]]))
            IN  res.code = 200 /\ res.db.pairs[res.out.id].experience_id = e
    /\ \A p \in UnknownPairs :
         /\ NotFound(PutPair(DB, With(ctx, [pairId |-> p, body |-> [is_active |-> FALSE]])))
         /\ LET res == DeletePair(DB, With(ctx, [pairId |-> p]))
            IN  res.code = 200 /\ res.db = DB
    /\ \A q \in UnknownCodes : \A res \in PublicExperience(DB, q) : NotFound(res)

\* ------------------------------------------------------------ repeated callbacks
\* What a callback decides of a pair row.
Outcome(row) ==
  [status |-> row.mind_target_status, target |-> row.mind_target_asset_id,
   error |-> row.mind_target_error]
Outcomes(db) == [p \in DOMAIN db.pairs |-> Outcome(db.pairs[p])]

\* C24: a completion callback delivered twice (the same pairId and the same
\* mindAssetId or error, at the same or a later reading of the clock) is
\* answered as it was the first time and leaves every pair with the status,
\* target asset id and error message that one delivery leaves.
C24_CallbackIdempotent ==
  \A req \in CompleteJobReqs(DB, SecretCtxs \cup CatalogAdmins) :
    LET once == CompleteJob(DB, req)
    IN  \A t \in {n \in Times : n >= req.now} :
          LET twice == CompleteJob(once.db, [req EXCEPT !.now = t])
          IN  /\ twice.code = once.code
              /\ twice.out = once.out
              /\ Outcomes(twice.db) = Outcomes(once.db)

\* A pair is ready, and the callback that reports its target, delivered
\* again, is admitted and leaves it as it is.
C24_Witness ==
  \E p \in DOMAIN pairs :
    /\ pairs[p].mind_target_status = "ready"
    /\ \E req \in CompleteJobReqs(DB, SecretCtxs) :
         /\ Has(req.body, "pairId") /\ req.body.pairId = p
         /\ CompleteJob(DB, req).code = 200
         /\ Outcomes(CompleteJob(DB, req).db) = Outcomes(DB)

\* ------------------------------------------------------------ codes of new experiences
UsedCodes == {experiences[e].qr_id : e \in DOMAIN experiences}
\* The first of the first MaxQrAttempts draws that no experience has, if any.
FirstFree(codes) ==
  {i \in 1..MaxQrAttempts : codes[i] \notin UsedCodes /\ \A j \in 1..(i - 1) : codes[j] \in UsedCodes}

\* C25: an admitted creation makes at most 5 checks of a drawn code against
\* the codes of the experiences and then inserts one row; when fewer than 5
\* draws in a row collide, the code inserted is the first draw that no
\* experience has, found unused at its check; when 5 collide it is the
\* sixth draw, unchecked.
C25_QrRetryBounded ==
  \A req \in CreateExperienceSessionReqs(SessionTokens) :
    LET res == CreateExperienceSession(DB, SDB, req)
    IN  res.code = 200 =>
          /\ res.out.checks <= MaxQrAttempts
          /\ DOMAIN res.db.experiences = DOMAIN experiences \cup {res.out.id}
          /\ res.out.id \notin DOMAIN experiences
          /\ res.db.experiences[res.out.id].qr_id = res.out.qr_id
          /\ \A e \in DOMAIN experiences : res.db.experiences[e] = experiences[e]
          /\ IF FirstFree(req.codes) # {}
             THEN \E i \in FirstFree(req.codes) :
                    /\ res.out.qr_id = req.codes[i]
                    /\ res.out.checks = i
                    /\ res.out.qr_id \notin UsedCodes
             ELSE res.out.qr_id = req.codes[MaxQrAttempts + 1] /\ res.out.checks = MaxQrAttempts

\* Two experiences with different codes, and an admitted creation whose
\* first four draws collide and whose fifth is inserted.
C25_Witness ==
  /\ \E e1, e2 \in DOMAIN experiences : experiences[e1].qr_id # experiences[e2].qr_id
  /\ \E req \in CreateExperienceSessionReqs(SessionTokens) :
       /\ CreateExperienceSession(DB, SDB, req).code = 200
       /\ FirstFree(req.codes) = {MaxQrAttempts}

\* ------------------------------------------------------------ runs of the generation job
Finished == {j \in DOMAIN jobs : jobs[j].pc \in {"done", "exit"}}
TargetReport(job) == [pairId |-> job.pairId, mindAssetId |-> job.mindAssetId]
ErrorReports(job) ==
  {[pairId |-> job.pairId, error |-> m] :
     m \in {"Failed to fetch image", "compile failed", "Upload sign failed", "Upload put failed",
            "Upload complete failed"}}
\* Download, compilation and the three upload requests of the run all succeeded.
Uploaded(job) == job.mindAssetId # ""

\* C26: a run posts exactly one body to /jobs/mindar/complete: {pairId,
\* mindAssetId} when download, compilation and upload all succeeded, else
\* {pairId, error}; and it posts {pairId, mindAssetId} only when
\* /uploads/complete has inserted the asset row of that id.
C26_OneOutcomePerRun ==
  \A j \in DOMAIN jobs :
    LET job == jobs[j]
    IN  /\ Len(job.reports) <= 1
        /\ j \in Finished =>
             /\ Len(job.reports) = 1
             /\ IF Uploaded(job) THEN job.reports[1] = TargetReport(job)
                ELSE job.reports[1] \in ErrorReports(job)
        /\ \A i \in DOMAIN job.reports :
             Has(job.reports[i], "mindAssetId") => job.reports[i].mindAssetId \in DOMAIN assets

\* What a run does post: one body when its first callback request is
\* answered; when the request that carries {pairId, mindAssetId} is rejected
\* by fetch(), a second body {pairId, error: "fetch failed"} after it.  The
\* target is posted only after its asset row exists.
RunPostsOnceOrTwice ==
  \A j \in DOMAIN jobs :
    LET job == jobs[j]
    IN  /\ Len(job.reports) <= 2
        /\ j \in Finished => Len(job.reports) >= 1
        /\ Len(job.reports) >= 1 =>
             IF Uploaded(job) THEN job.reports[1] = TargetReport(job)
             ELSE job.reports[1] \in ErrorReports(job) /\ Len(job.reports) = 1
        /\ Len(job.reports) = 2 =>
             job.reports[2] = [pairId |-> job.pairId, error |-> "fetch failed"]
        /\ \A i \in DOMAIN job.reports :
             Has(job.reports[i], "mindAssetId") => job.reports[i].mindAssetId \in DOMAIN assets

\* The runs that were started for pair p, and those of them for its current image.
RunsOf(p) == {j \in DOMAIN jobs : jobs[j].pairId = p}
CurrentRunsOf(p) == {j \in RunsOf(p) : jobs[j].image = pairs[p].image_asset_id}

\* C27: the target of a ready pair is the asset that a run started for the
\* pair's current image has uploaded, and the error of a pair that a run
\* has failed is one that a run for its current image has posted: the
\* callback of a run started for an earlier image decides nothing.
C27_TargetOfCurrentImage ==
  \A p \in DOMAIN pairs :
    /\ pairs[p].mind_target_status = "ready" =>
         \E j \in CurrentRunsOf(p) :
           Uploaded(jobs[j]) /\ jobs[j].mindAssetId = pairs[p].mind_target_asset_id
    /\ (pairs[p].mind_target_status = "failed" /\ pairs[p].mind_target_error \notin {NULL, "Dispatch failed"}) =>
         \E j \in CurrentRunsOf(p) : \E i \in DOMAIN jobs[j].reports :
           Has(jobs[j].reports[i], "error") /\ jobs[j].reports[i].error = pairs[p].mind_target_error

\* What the callback does hold: the target of a ready pair is the asset that
\* some run started for the pair has uploaded and posted, whichever image
\* the run was started for.
TargetOfSomeRun ==
  \A p \in DOMAIN pairs :
    pairs[p].mind_target_status = "ready" =>
      \E j \in RunsOf(p) :
        /\ Uploaded(jobs[j]) /\ jobs[j].mindAssetId = pairs[p].mind_target_asset_id
        /\ TargetReport(jobs[j]) \in {jobs[j].reports[i] : i \in DOMAIN jobs[j].reports}

\* ------------------------------------------------------------ referential integrity
\* C28: the experience_id of every pair is the id of an experience row,
\* however pair creations, pair moves and the two statements of experience
\* deletions interleave.
C28_PairsHaveExperience ==
  \A p \in DOMAIN pairs : pairs[p].experience_id \in DOMAIN experiences

\* What the deletion does hold: run without another request between its two
\* statements it is DeleteExperience, which leaves no pair of the experience.
DeleteInOneStep ==
  \A req \in RaceDeleteReqs :
    LET first == DeleteExperiencePairs(DB, req)
        second == DeleteExperienceRow(first.db, req)
    IN  /\ second = DeleteExperience(DB, req)
        /\ \A p \in DOMAIN second.db.pairs : second.db.pairs[p].experience_id # req.expId

\* ------------------------------------------------------------ the job secret alone
\* The answers of the experience and pair routes to callers ctxs.
CatalogAnswers(db, ctxs) ==
  {GetExperience(db, req) : req \in DeleteExperienceReqs(db, ctxs)}
    \cup {ListPairs(db, req) : req \in DeleteExperienceReqs(db, ctxs)}
    \cup {CreateExperience(db, req) : req \in CreateExperienceReqs(db, ctxs)}
    \cup {PutExperience(db, req) : req \in PutExperienceReqs(db, ctxs)}
    \cup {DeleteExperience(db, req) : req \in DeleteExperienceReqs(db, ctxs)}
    \cup {CreatePair(db, req) : req \in CreatePairReqs(db, ctxs)}
    \cup {PutPair(db, req) : req \in PutPairReqs(db, ctxs)}
    \cup {DeletePair(db, req) : req \in DeletePairReqs(db, ctxs)}

\* The answers of the upload routes and of the completion callback.
JobRouteAnswers(db, ctxs) ==
  {SignUpload(db, req) : req \in SignUploadReqs(ctxs)}
    \cup {CompleteUpload(db, With(ctx, [body |-> b])) : ctx \in ctxs, b \in CompleteUploadBodies}
    \cup {CompleteJob(db, req) : req \in CompleteJobReqs(db, ctxs)}

\* The job secret alone opens the upload routes and the callback, and
\* does not open /jobs/mindar/dispatch.
JobSecretOpensJobRoutes ==
  /\ \A res \in JobRouteAnswers(DB, JobCtxs) : res.code # 401
  /\ \E res \in JobRouteAnswers(DB, JobCtxs) : res.code = 200
  /\ \A req \in DispatchJobReqs(DB, JobCtxs) :
       LET res == DispatchJob(DB, req) IN res.code = 401 /\ res.db = DB

\* C29: a request that presents the job secret of the deployment and no
\* bearer token is served by POST /uploads/sign, POST /uploads/complete and
\* POST /jobs/mindar/complete, and is answered 401 with nothing changed by
\* the experience and pair routes and by POST /jobs/mindar/dispatch.
C29_JobSecretOnlyJobRoutes ==
  /\ JobSecretOpensJobRoutes
  /\ \A res \in CatalogAnswers(DB, JobCtxs) : res.code = 401 /\ res.db = DB

\* What the gate does instead: the job secret alone gets from every experience
\* and pair route the answer the admin's token gets.
JobSecretOpensCatalog ==
  \A t \in Times :
    CatalogAnswers(DB, {Ctx(Job, EnvFull, t, "ok")}) = CatalogAnswers(DB, {Ctx(Admin, EnvFull, t, "ok")})

\* ------------------------------------------------------------ pending pairs
Pending(p) == p \in DOMAIN pairs /\ pairs[p].mind_target_status = "pending"
\* A run started for pair p has not yet ended.
Running(p) == \E j \in DOMAIN jobs : jobs[j].pairId = p /\ jobs[j].pc \notin {"done", "exit"}

\* C30: a pending pair for which a started run has yet to end is eventually
\* not pending (it is 'ready' or 'failed'), when every run takes its steps to
\* its end and its callback request is answered.
C30_TriggeredPairLeavesPending ==
  \A p \in 1..MaxPairs : (Pending(p) /\ Running(p)) ~> ~Pending(p)

\* A pair is pending while its run has uploaded the target and is about to report.
C30_Witness ==
  \E p \in DOMAIN pairs : \E j \in DOMAIN jobs :
    /\ Pending(p)
    /\ jobs[j].pairId = p
    /\ jobs[j].pc = "report"

\* The other way to be pending: the row was written, the trigger threw and
\* no run was ever started, so nothing is left to move the pair.
PendingWithoutRun == \E p \in DOMAIN pairs : Pending(p) /\ jobs = <<>>
====
